---- MODULE Spec2Model ----
(***************************************************************************)
(* pdm-bump: the PEP 440 version model, its ordering, parsing and          *)
(* formatting (core/version.py), the version modifiers                     *)
(* (actions/increment.py, actions/preview.py, actions/poetry_like.py),     *)
(* the rating based version policy (actions/version_providers.py) and the  *)
(* conventional commit parser (vcs/history.py).                            *)
(*                                                                         *)
(* A modifier is constructed around a current version and its              *)
(* create_new_version either returns a new Version or raises.  The model   *)
(* draws the current version from every Version the constructor accepts    *)
(* within the bounds below and applies one modifier to it.  Further        *)
(* specifications compare two versions, parse and format version strings,  *)
(* let the policy select and apply a modifier, and parse commit headers.   *)
(***************************************************************************)
EXTENDS Integers, Sequences, FiniteSets, TLC

VARIABLES current_version, modifier, args, outcome,
          other, comparison,
          text, parsed, formatted, reparsed, reformatted,
          statistics, is_clean_repository, selected,
          header, commit_type, breaking_change,
          commits, get_commit_stats_cache, commit_stats, accesses,
          command_line, options, dry_run, vcs_is_clean, hooks, pc, raised,
          save_version_calls, has_new_version, created_tags,
          check_in_deltas_calls, old_version, returned_version

modifier_vars == <<current_version, modifier, args, outcome>>

compare_vars == <<other, comparison>>

string_vars == <<text, parsed, formatted, reparsed, reformatted>>
policy_vars == <<statistics, is_clean_repository, selected>>
commit_vars == <<header, commit_type, breaking_change>>
history_vars == <<commits, get_commit_stats_cache, commit_stats, accesses>>
vcs_vars == <<commit_vars, history_vars>>
run_vars == <<command_line, options, dry_run, vcs_is_clean, hooks, pc,
              raised,
              save_version_calls, has_new_version, created_tags,
              check_in_deltas_calls, old_version, returned_version>>
vars == <<modifier_vars, compare_vars, string_vars, policy_vars, vcs_vars,
          run_vars>>

(***************************************************************************)
(* Bounds of the model.                                                    *)
(***************************************************************************)
MaxEpoch == 1
MaxPart == 1
MaxLen == 3
MaxPre == 1
MaxPost == 0
MaxDev == 0
MaxTypes == 2
MaxCount == 2

(***************************************************************************)
(* core/version.py: the Version dataclass.  Optional fields hold None,     *)
(* modelled as the empty tuple; preview, post and dev are pairs            *)
(* <<kind, number>>; local is the sequence of the label's tokens.          *)
(***************************************************************************)
None == <<>>

PreviewKinds == {"a", "b", "c", "alpha", "beta", "rc"}

Version(epoch, release_tuple, preview, post, dev, local) ==
    [epoch |-> epoch, release_tuple |-> release_tuple, preview |-> preview,
     post |-> post, dev |-> dev, local |-> local]

major(v) == IF Len(v.release_tuple) >= 1 THEN v.release_tuple[1] ELSE 0

minor(v) == IF Len(v.release_tuple) >= 2 THEN v.release_tuple[2] ELSE 0

micro(v) == IF Len(v.release_tuple) >= 3 THEN v.release_tuple[3] ELSE 0

release(v) == <<major(v), minor(v), micro(v)>>

is_development_version(v) == v.dev # None

is_pre_release(v) == v.preview # None \/ is_development_version(v)

is_post_release(v) == v.post # None

is_local_version(v) == v.local # None

compare_preview(v, valid_parts) ==
    IF v.preview # None THEN v.preview[1] \in valid_parts ELSE FALSE

is_alpha(v) == v.preview # None /\ compare_preview(v, {"a", "alpha"})

is_beta(v) == v.preview # None /\ compare_preview(v, {"b", "beta"})

is_release_candidate(v) == v.preview # None /\ compare_preview(v, {"c", "rc"})

is_final(v) ==
    /\ v.preview = None
    /\ ~is_local_version(v)
    /\ ~is_post_release(v)
    /\ ~is_development_version(v)

\* Version.__post_init__: the preview kind is validated only when the
\* version is a pre-release that is not a development version.
post_init_raises(v) ==
    /\ is_pre_release(v) /\ ~is_development_version(v)
    /\ v.preview[1] \notin PreviewKinds

\* Version.__eq__
VersionEq(v, w) ==
    /\ v.epoch = w.epoch
    /\ release(v) = release(w)
    /\ v.preview = w.preview
    /\ v.post = w.post
    /\ v.dev = w.dev
    /\ v.local = w.local

\* Python's ordering of the strings a Version holds.
StringOrder == <<"a", "alpha", "b", "beta", "c", "dev", "local1", "post", "rc">>

StringRank(str) == CHOOSE i \in 1..Len(StringOrder) : StringOrder[i] = str

\* x < y for two values of one field: integers, tuples of integers, a
\* (kind, number) pair, a string, or None.  Python raises TypeError when
\* None is ordered against anything.
IntLt(x, y) == IF x < y THEN "True" ELSE "False"

RECURSIVE TupleLt(_, _)
TupleLt(x, y) ==
    IF x = <<>> THEN (IF y = <<>> THEN "False" ELSE "True")
    ELSE IF y = <<>> THEN "False"
    ELSE IF Head(x) = Head(y) THEN TupleLt(Tail(x), Tail(y))
    ELSE IntLt(Head(x), Head(y))

PartLt(x, y) ==
    IF x = None \/ y = None THEN "TypeError"
    ELSE IF x[1] # y[1] THEN IntLt(StringRank(x[1]), StringRank(y[1]))
    ELSE IF Len(x) = 1 THEN "False"
    ELSE IntLt(x[2], y[2])

\* Version.__lt__: the tuples (epoch, release, preview, post, dev, local)
\* are compared lexicographically, the first differing element decides.
Version_lt(v, w) ==
    IF v.epoch # w.epoch THEN IntLt(v.epoch, w.epoch)
    ELSE IF release(v) # release(w) THEN TupleLt(release(v), release(w))
    ELSE IF v.preview # w.preview THEN PartLt(v.preview, w.preview)
    ELSE IF v.post # w.post THEN PartLt(v.post, w.post)
    ELSE IF v.dev # w.dev THEN PartLt(v.dev, w.dev)
    ELSE IF v.local # w.local THEN PartLt(v.local, w.local)
    ELSE "False"

\* functools.total_ordering: __ge__ is derived as not __lt__.
Version_ge(v, w) ==
    IF Version_lt(v, w) = "TypeError" THEN "TypeError"
    ELSE IF Version_lt(v, w) = "True" THEN "False" ELSE "True"

default == Version(0, <<1>>, None, None, None, None)

(***************************************************************************)
(* The result of a call: a returned Version or a raised exception.         *)
(***************************************************************************)
Returned(v) == [kind |-> "returned", version |-> v]

Raised(exception) == [kind |-> exception, version |-> None]

NotCalled == [kind |-> "none", version |-> None]

\* Version(**construction_args): the constructor runs __post_init__.
Construct(v) == IF post_init_raises(v) THEN Raised("ValueError") ELSE Returned(v)

\* The constructor arguments of a modifier other than the version; NoPart
\* is pre_release_part=None.
NoPart == "None"

NoArgs == [remove_parts |-> FALSE, reset_version |-> FALSE,
           increment_micro |-> FALSE, no_increment_micro |-> FALSE,
           pre_release_part |-> NoPart]

(***************************************************************************)
(* Version strings.  A string is the sequence of its lexical tokens: one   *)
(* token per digit, separator and punctuation character and one per word.  *)
(* Version.local, a str, is such a sequence too.                           *)
(***************************************************************************)
DigitTokens == <<"0", "1", "2", "3", "4", "5", "6", "7", "8", "9">>

Digit == {DigitTokens[i] : i \in 1..Len(DigitTokens)}

DigitValue(t) == (CHOOSE i \in 1..Len(DigitTokens) : DigitTokens[i] = t) - 1

Separators == {".", "-", "_"}

PreLetters == {"a", "b", "c", "rc", "alpha", "beta", "pre", "preview"}

PostLetters == {"post", "rev", "r"}

DevLetters == {"dev"}

Words == PreLetters \cup PostLetters \cup DevLetters
            \cup {"v", "local1", "V", "RC", "DEV", "LOCAL1"}

\* str.lower() / re.IGNORECASE on a token.
Lower(t) ==
    CASE t = "V" -> "v"
      [] t = "RC" -> "rc"
      [] t = "DEV" -> "dev"
      [] t = "LOCAL1" -> "local1"
      [] OTHER -> t

\* int(digits) and str(n).
RECURSIVE IntOf(_)
IntOf(d) ==
    IF d = <<>> THEN 0
    ELSE IntOf(SubSeq(d, 1, Len(d) - 1)) * 10 + DigitValue(d[Len(d)])

RECURSIVE StrOf(_)
StrOf(n) ==
    IF n < 10 THEN <<DigitTokens[n + 1]>>
    ELSE StrOf(n \div 10) \o <<DigitTokens[(n % 10) + 1]>>

Drop(s, n) == SubSeq(s, n + 1, Len(s))

\* [0-9]* at the start of s.
RECURSIVE DigitRun(_)
DigitRun(s) ==
    IF s # <<>> /\ Head(s) \in Digit
    THEN <<Head(s)>> \o DigitRun(Tail(s))
    ELSE <<>>

\* [-_\.]? at the start of s.
SkipSeparator(s) ==
    IF s # <<>> /\ Head(s) \in Separators THEN Tail(s) ELSE s

\* The PEP 440 pattern that packaging's Version, called by from_string,
\* matches against the whole string, one group after the other.  Every
\* group reports what it matched and the rest of the string.
\* v?
MatchPrefix(s) == IF s # <<>> /\ Lower(Head(s)) = "v" THEN Tail(s) ELSE s

\* (?:(?P<epoch>[0-9]+)!)?
MatchEpoch(s) ==
    LET d == DigitRun(s)
    IN  IF d # <<>> /\ Len(s) > Len(d) /\ s[Len(d) + 1] = "!"
        THEN [value |-> IntOf(d), rest |-> Drop(s, Len(d) + 1)]
        ELSE [value |-> 0, rest |-> s]

\* (?:\.[0-9]+)*
RECURSIVE MatchReleaseTail(_)
MatchReleaseTail(s) ==
    IF Len(s) >= 2 /\ s[1] = "." /\ s[2] \in Digit
    THEN LET d == DigitRun(Tail(s))
             r == MatchReleaseTail(Drop(s, 1 + Len(d)))
         IN  [value |-> <<IntOf(d)>> \o r.value, rest |-> r.rest]
    ELSE [value |-> <<>>, rest |-> s]

\* (?P<release>[0-9]+(?:\.[0-9]+)*)
MatchRelease(s) ==
    LET d == DigitRun(s)
        r == MatchReleaseTail(Drop(s, Len(d)))
    IN  IF d = <<>> THEN [ok |-> FALSE, value |-> <<>>, rest |-> s]
        ELSE [ok |-> TRUE, value |-> <<IntOf(d)>> \o r.value,
              rest |-> r.rest]

\* _parse_letter_version: the spelling of a letter is normalised and a
\* missing number is 0.
NormalLetter(letter) ==
    CASE letter = "alpha" -> "a"
      [] letter = "beta" -> "b"
      [] letter \in {"c", "pre", "preview"} -> "rc"
      [] letter \in {"rev", "r"} -> "post"
      [] OTHER -> letter

\* [-_\.]? (letter) [-_\.]? ([0-9]+)?
MatchLetterNumber(s, letters) ==
    LET t == SkipSeparator(s)
    IN  IF t # <<>> /\ Lower(Head(t)) \in letters
        THEN LET u == SkipSeparator(Tail(t))
                 d == DigitRun(u)
             IN  [value |-> <<NormalLetter(Lower(Head(t))), IntOf(d)>>,
                  rest |-> Drop(u, Len(d))]
        ELSE [value |-> None, rest |-> s]

\* (?:-(?P<post_n1>[0-9]+)) | (?: [-_\.]? (post|rev|r) [-_\.]? [0-9]* )
MatchPost(s) ==
    IF Len(s) >= 2 /\ s[1] = "-" /\ s[2] \in Digit
    THEN LET d == DigitRun(Tail(s))
         IN  [value |-> <<"post", IntOf(d)>>, rest |-> Drop(s, 1 + Len(d))]
    ELSE MatchLetterNumber(s, PostLetters)

\* _parse_local_version: the segments between separators, lower-cased,
\* all-digit segments read as integers; Version.local joins them with ".".
RECURSIVE FirstSegment(_)
FirstSegment(s) ==
    IF s # <<>> /\ Head(s) \in Digit \cup Words
    THEN <<Head(s)>> \o FirstSegment(Tail(s))
    ELSE <<>>

RECURSIVE LowerAll(_)
LowerAll(s) ==
    IF s = <<>> THEN <<>> ELSE <<Lower(Head(s))>> \o LowerAll(Tail(s))

NormalSegment(segment) ==
    IF \A i \in 1..Len(segment) : segment[i] \in Digit
    THEN StrOf(IntOf(segment))
    ELSE LowerAll(segment)

\* [a-z0-9]+(?:[-_\.][a-z0-9]+)* up to the end of the string.
RECURSIVE MatchSegments(_)
MatchSegments(s) ==
    LET segment == FirstSegment(s)
        rest == Drop(s, Len(segment))
    IN  IF segment = <<>> THEN [ok |-> FALSE, value |-> None]
        ELSE IF rest = <<>>
        THEN [ok |-> TRUE, value |-> NormalSegment(segment)]
        ELSE IF Head(rest) \in Separators
        THEN LET more == MatchSegments(Tail(rest))
             IN  [ok |-> more.ok,
                  value |-> NormalSegment(segment) \o <<".">> \o more.value]
        ELSE [ok |-> FALSE, value |-> None]

\* (?:\+(?P<local>...))? and the end of the string.
MatchLocal(s) ==
    IF s = <<>> THEN [ok |-> TRUE, value |-> None]
    ELSE IF Head(s) = "+" THEN MatchSegments(Tail(s))
    ELSE [ok |-> FALSE, value |-> None]

\* Version.from_string: packaging parses the string, the parts are copied
\* into a Version; a string that does not match raises VersionParserError.
from_string(s) ==
    LET epoch == MatchEpoch(MatchPrefix(s))
        rel == MatchRelease(epoch.rest)
        pre == MatchLetterNumber(rel.rest, PreLetters)
        post == MatchPost(pre.rest)
        dev == MatchLetterNumber(post.rest, DevLetters)
        local == MatchLocal(dev.rest)
    IN  IF rel.ok /\ local.ok
        THEN Construct(Version(epoch.value, rel.value, pre.value,
                               post.value, dev.value, local.value))
        ELSE Raised("VersionParserError")

\* ".".join(str(part) for part in parts)
RECURSIVE JoinDots(_)
JoinDots(parts) ==
    IF Len(parts) = 1 THEN StrOf(parts[1])
    ELSE StrOf(Head(parts)) \o <<".">> \o JoinDots(Tail(parts))

\* Variant: the parts after the release tuple are written post, dev,
\* preview.
format_preview_last(version) ==
    (IF version.epoch > 0 THEN StrOf(version.epoch) \o <<"!">> ELSE <<>>)
    \o JoinDots(release(version))
    \o (IF version.post # None
        THEN <<".", "post">> \o StrOf(version.post[2]) ELSE <<>>)
    \o (IF version.dev # None
        THEN <<".", "dev">> \o StrOf(version.dev[2]) ELSE <<>>)
    \o (IF version.preview # None
        THEN <<version.preview[1]>> \o StrOf(version.preview[2]) ELSE <<>>)
    \o (IF is_local_version(version)
        THEN <<"+">> \o version.local ELSE <<>>)

\* Pep440VersionFormatter.format
format(version) ==
    (IF version.epoch > 0 THEN StrOf(version.epoch) \o <<"!">> ELSE <<>>)
    \o JoinDots(release(version))
    \o (IF version.preview # None
        THEN <<version.preview[1]>> \o StrOf(version.preview[2]) ELSE <<>>)
    \o (IF version.post # None
        THEN <<".", "post">> \o StrOf(version.post[2]) ELSE <<>>)
    \o (IF version.dev # None
        THEN <<".", "dev">> \o StrOf(version.dev[2]) ELSE <<>>)
    \o (IF is_local_version(version)
        THEN <<"+">> \o version.local ELSE <<>>)

(***************************************************************************)
(* actions/increment.py                                                    *)
(***************************************************************************)
\* _NonFinalPartsRemovingVersionModifier._create_new_constructional_args
create_new_constructional_args(release_tuple, epoch) ==
    Version(epoch, release_tuple, None, None, None, None)

MAJOR_PART == 0

MINOR_PART == 1

MICRO_PART == 2

\* Variant: the components after the incremented one are not reset.
update_release_version_part_no_reset(cv, part_id) ==
    [i \in 1..3 |->
        IF i - 1 = part_id THEN release(cv)[i] + 1 ELSE release(cv)[i]]

\* _ReleaseVersionModifier._update_release_version_part: part_id counts
\* from 0 over the three components of current_version.release.
update_release_version_part(cv, part_id) ==
    [i \in 1..3 |->
        IF i - 1 = part_id THEN release(cv)[i] + 1
        ELSE IF i - 1 > part_id THEN 0
        ELSE release(cv)[i]]

\* Variant: removing the non-final parts leaves the local part in place.
ReleaseVersionModifier_create_keeps_local(cv, release_part, remove_parts) ==
    LET next_release == update_release_version_part(cv, release_part)
    IN  IF remove_parts
        THEN Construct([create_new_constructional_args(next_release, cv.epoch)
                            EXCEPT !.local = cv.local])
        ELSE Construct([cv EXCEPT !.release_tuple = next_release])

\* _ReleaseVersionModifier.create_new_version
ReleaseVersionModifier_create_new_version(cv, release_part, remove_parts) ==
    LET next_release == update_release_version_part(cv, release_part)
    IN  IF remove_parts
        THEN Construct(create_new_constructional_args(next_release, cv.epoch))
        ELSE Construct([cv EXCEPT !.release_tuple = next_release])

\* Variant: the release tuple is kept but the other parts are not removed.
Finalizing_create_new_version_keeps_post(cv) ==
    Construct([create_new_constructional_args(release(cv), cv.epoch)
                   EXCEPT !.post = cv.post])

\* FinalizingVersionModifier.create_new_version
Finalizing_create_new_version(cv) ==
    Construct(create_new_constructional_args(release(cv), cv.epoch))

\* Variant: removing the parts also resets the release to the default.
Epoch_create_new_version_always_resets(cv, remove_parts, reset_version) ==
    LET constructional_args ==
            IF reset_version \/ remove_parts THEN default ELSE cv
    IN  Construct([constructional_args EXCEPT !.epoch = cv.epoch + 1])

\* EpochIncrementingVersionModifier.create_new_version
Epoch_create_new_version(cv, remove_parts, reset_version) ==
    LET constructional_args ==
            IF reset_version \/ remove_parts
            THEN IF ~reset_version
                 THEN [default EXCEPT !.release_tuple = release(cv)]
                 ELSE default
            ELSE cv
    IN  Construct([constructional_args EXCEPT !.epoch = cv.epoch + 1])

\* Variant: the post part is never reset.
Development_create_new_version_keeps_post(cv) ==
    LET dev_version == IF cv.dev # None THEN cv.dev[2] + 1 ELSE 1
        pre == IF cv.dev = None /\ cv.preview # None
               THEN <<cv.preview[1], cv.preview[2] + 1>>
               ELSE None
        micro_version == IF cv.dev = None /\ cv.preview = None
                         THEN micro(cv) + 1
                         ELSE micro(cv)
    IN  Construct([cv EXCEPT
            !.dev = <<"dev", dev_version>>,
            !.release_tuple = <<major(cv), minor(cv), micro_version>>,
            !.preview = IF pre # None THEN pre ELSE @])

\* Variant: a preview without a dev part has its number bumped and gets no
\* dev part.
Development_create_new_version_no_dev_on_preview(cv) ==
    LET dev_version == IF cv.dev # None THEN cv.dev[2] + 1 ELSE 1
        pre == IF cv.dev = None /\ cv.preview # None
               THEN <<cv.preview[1], cv.preview[2] + 1>>
               ELSE None
        micro_version == IF cv.dev = None /\ cv.preview = None
                         THEN micro(cv) + 1
                         ELSE micro(cv)
    IN  Construct([cv EXCEPT
            !.dev = IF pre # None THEN @ ELSE <<"dev", dev_version>>,
            !.release_tuple = <<major(cv), minor(cv), micro_version>>,
            !.preview = IF pre # None THEN pre ELSE @,
            !.post = IF is_post_release(cv) /\ ~is_development_version(cv)
                     THEN None ELSE @])

\* DevelopmentVersionIncrementingVersionModifier.create_new_version
Development_create_new_version(cv) ==
    LET dev_version == IF cv.dev # None THEN cv.dev[2] + 1 ELSE 1
        pre == IF cv.dev = None /\ cv.preview # None
               THEN <<cv.preview[1], cv.preview[2] + 1>>
               ELSE None
        micro_version == IF cv.dev = None /\ cv.preview = None
                         THEN micro(cv) + 1
                         ELSE micro(cv)
    IN  Construct([cv EXCEPT
            !.dev = <<"dev", dev_version>>,
            !.release_tuple = <<major(cv), minor(cv), micro_version>>,
            !.preview = IF pre # None THEN pre ELSE @,
            !.post = IF is_post_release(cv) /\ ~is_development_version(cv)
                     THEN None ELSE @])

\* Variant: the dev part survives the post increment.
Post_create_new_version_keeps_dev(cv) ==
    LET post_version == IF cv.post # None THEN cv.post[2] + 1 ELSE 1
    IN  Construct([cv EXCEPT !.post = <<"post", post_version>>])

\* PostVersionIncrementingVersionModifier.create_new_version
Post_create_new_version(cv) ==
    LET post_version == IF cv.post # None THEN cv.post[2] + 1 ELSE 1
    IN  Construct([cv EXCEPT
            !.post = <<"post", post_version>>,
            !.dev = IF is_development_version(cv) THEN None ELSE @])

(***************************************************************************)
(* actions/preview.py                                                      *)
(***************************************************************************)
\* pre_release_part of Alpha/Beta/ReleaseCandidateIncrementingVersionModifier
\* (the letter; the second element is only used in the error message).
pre_release_part(name) ==
    CASE name = "alpha" -> "a"
      [] name = "beta" -> "b"
      [] name = "rc" -> "rc"

\* Variant: the beta modifier accepts every pre-release.
is_valid_preview_version_any_preview(name, cv) ==
    CASE name = "alpha" -> is_alpha(cv)
      [] name = "beta" -> cv.preview # None
      [] name = "rc" -> is_alpha(cv) \/ is_beta(cv) \/ is_release_candidate(cv)

\* _is_valid_preview_version of the three classes
is_valid_preview_version(name, cv) ==
    CASE name = "alpha" -> is_alpha(cv)
      [] name = "beta" -> is_alpha(cv) \/ is_beta(cv)
      [] name = "rc" -> is_alpha(cv) \/ is_beta(cv) \/ is_release_candidate(cv)

\* _PreReleaseIncrementingVersionModifier._get_next_release
get_next_release(cv, increment_micro) ==
    LET micro_version == IF increment_micro /\ cv.preview = None
                         THEN micro(cv) + 1
                         ELSE micro(cv)
    IN  [release(cv) EXCEPT ![3] = micro_version]

\* Variant: the local part of the current version is carried over.
PreRelease_create_new_version_keeps_local(name, cv, increment_micro) ==
    LET letter == pre_release_part(name)
    IN  IF cv.preview # None /\ ~is_valid_preview_version(name, cv)
        THEN Raised("PreviewMismatchError")
        ELSE LET number == IF letter = cv.preview[1]
                           THEN cv.preview[2] + 1
                           ELSE 1
                 pre == IF cv.preview # None
                        THEN <<letter, number>>
                        ELSE <<letter, 1>>
             IN  Construct(Version(cv.epoch,
                                   get_next_release(cv, increment_micro),
                                   pre, None, None, cv.local))

\* _PreReleaseIncrementingVersionModifier.create_new_version
PreRelease_create_new_version(name, cv, increment_micro) ==
    LET letter == pre_release_part(name)
    IN  IF cv.preview # None /\ ~is_valid_preview_version(name, cv)
        THEN Raised("PreviewMismatchError")
        ELSE LET number == IF letter = cv.preview[1]
                           THEN cv.preview[2] + 1
                           ELSE 1
                 pre == IF cv.preview # None
                        THEN <<letter, number>>
                        ELSE <<letter, 1>>
             IN  Construct(Version(cv.epoch,
                                   get_next_release(cv, increment_micro),
                                   pre, None, None, None))

(***************************************************************************)
(* actions/poetry_like.py                                                  *)
(***************************************************************************)
\* PoetryLikePreMajorVersionModifier.create_new_version
PreMajor_create_new_version(cv) ==
    IF ~is_final(cv)
    THEN Raised("ValueError")
    ELSE Construct(Version(cv.epoch, <<major(cv) + 1, 0, 0>>, <<"a", 0>>,
                           None, None, None))

\* PoetryLikePreMinorVersionModifier.create_new_version
PreMinor_create_new_version(cv) ==
    IF ~is_final(cv)
    THEN Raised("ValueError")
    ELSE Construct(Version(cv.epoch, <<major(cv), minor(cv) + 1, 0>>,
                           <<"a", 0>>, None, None, None))

\* Variant: only a preview makes the version unfit for prepatch.
PrePatch_create_new_version_checks_preview_only(cv) ==
    IF cv.preview # None
    THEN Raised("ValueError")
    ELSE Construct(Version(cv.epoch, <<major(cv), minor(cv), micro(cv) + 1>>,
                           <<"a", 0>>, None, None, None))

\* PoetryLikePrePatchVersionModifier.create_new_version
PrePatch_create_new_version(cv) ==
    IF ~is_final(cv)
    THEN Raised("ValueError")
    ELSE Construct(Version(cv.epoch, <<major(cv), minor(cv), micro(cv) + 1>>,
                           <<"a", 0>>, None, None, None))

\* Variant: the number of an existing preview is kept.
PoetryPreRelease_create_new_version_keeps_number(cv) ==
    IF cv.preview # None
    THEN Construct(Version(cv.epoch, <<major(cv), minor(cv), micro(cv)>>,
                           cv.preview, None, None, None))
    ELSE Construct(Version(cv.epoch, <<major(cv), minor(cv), micro(cv) + 1>>,
                           <<"a", 0>>, None, None, None))

\* PoetryLikePreReleaseVersionModifier.create_new_version
PoetryPreRelease_create_new_version(cv) ==
    LET preview_part ==
            IF cv.preview # None
            THEN IF is_alpha(cv) THEN <<"a", cv.preview[2] + 1>>
                 ELSE IF is_beta(cv) THEN <<"b", cv.preview[2] + 1>>
                 ELSE IF is_release_candidate(cv)
                      THEN <<"rc", cv.preview[2] + 1>>
                      ELSE None
            ELSE <<"a", 0>>
        release_part ==
            IF cv.preview # None
            THEN <<major(cv), minor(cv), micro(cv)>>
            ELSE <<major(cv), minor(cv), micro(cv) + 1>>
    IN  Construct(Version(cv.epoch, release_part, preview_part,
                          None, None, None))

\* PreReleaseIncrementingVersionModifier: __init__ picks the sub-modifier
\* by name or alias, create_new_version delegates to it.
PreReleaseIncrementing_create_new_version(cv, part, increment_micro, no_increment_micro) ==
    LET do_increment_micro ==
            increment_micro \/ ~no_increment_micro \/ ~is_pre_release(cv)
        pre_release ==
            IF part = NoPart
            THEN IF cv.preview # None THEN cv.preview[1] ELSE "alpha"
            ELSE part
    IN  IF pre_release \in {"alpha", "a"}
        THEN PreRelease_create_new_version("alpha", cv, do_increment_micro)
        ELSE IF pre_release \in {"beta", "b"}
        THEN PreRelease_create_new_version("beta", cv, do_increment_micro)
        ELSE IF pre_release \in {"rc", "c"}
        THEN PreRelease_create_new_version("rc", cv, do_increment_micro)
        ELSE Raised("ValueError")

\* Variant: the preview is removed as well.
ResetNonSemanticParts_create_new_version_drops_preview(cv) ==
    Construct(Version(cv.epoch, cv.release_tuple, None, None, None, None))

\* ResetNonSemanticPartsModifier.create_new_version
ResetNonSemanticParts_create_new_version(cv) ==
    Construct(Version(cv.epoch, cv.release_tuple, cv.preview,
                      None, None, None))

(***************************************************************************)
(* vcs/history.py: the commit types, and actions/version_providers.py:     *)
(* the rating of a history and the modifier a policy selects for it.       *)
(***************************************************************************)
CommitTypes ==
    {"Undefined", "Feature", "Bugfix", "Chore", "QualityAssurance",
     "Documentation", "Build", "ContinuousIntegration", "CodeStyle",
     "Refactoring", "Performance", "Test"}

\* A commit header is the sequence of its characters.
\* CommitType.all_values(): the members in the order of dir(), each with
\* its value as the configured prefix.
prefix_mappings ==
    <<<<"Bugfix", <<"f", "i", "x">>>>,
      <<"Build", <<"b", "u", "i", "l", "d">>>>,
      <<"Chore", <<"c", "h", "o", "r", "e">>>>,
      <<"CodeStyle", <<"s", "t", "y", "l", "e">>>>,
      <<"ContinuousIntegration", <<"c", "i">>>>,
      <<"Documentation", <<"d", "o", "c", "s">>>>,
      <<"Feature", <<"f", "e", "a", "t">>>>,
      <<"Performance", <<"p", "e", "r", "f">>>>,
      <<"QualityAssurance", <<"q", "a">>>>,
      <<"Refactoring", <<"r", "e", "f", "a", "c", "t", "o", "r">>>>,
      <<"Test", <<"t", "e", "s", "t">>>>,
      <<"Undefined", <<"1">>>>>>

StartsWith(str, start) ==
    Len(start) <= Len(str) /\ SubSeq(str, 1, Len(start)) = start

\* [^:!]* at the start of str.
RECURSIVE TypeRun(_)
TypeRun(str) ==
    IF str # <<>> /\ Head(str) \notin {":", "!"}
    THEN <<Head(str)>> \o TypeRun(Tail(str))
    ELSE <<>>

Whitespace == {" ", "\n"}

\* ConventionalCommitParser.__get_conventional_commit_prefix: group 1 of
\* ^([^:!]+!?):\s.* matched at the start of the header, or None.
get_conventional_commit_prefix(hdr) ==
    LET run == TypeRun(hdr)
        after_run == Drop(hdr, Len(run))
        bang == IF after_run # <<>> /\ Head(after_run) = "!"
                THEN <<"!">> ELSE <<>>
        rest == Drop(after_run, Len(bang))
    IN  IF run # <<>> /\ Len(rest) >= 2 /\ rest[1] = ":"
           /\ rest[2] \in Whitespace
        THEN run \o bang
        ELSE None

\* The first entry of the mapping, from index i on, that accepts prefix.
RECURSIVE FirstExact(_, _)
FirstExact(prefix, i) ==
    IF i > Len(prefix_mappings) THEN "Undefined"
    ELSE IF prefix = prefix_mappings[i][2] THEN prefix_mappings[i][1]
    ELSE FirstExact(prefix, i + 1)

RECURSIVE FirstStartsWith(_, _)
FirstStartsWith(prefix, i) ==
    IF i > Len(prefix_mappings) THEN "Undefined"
    ELSE IF StartsWith(prefix, prefix_mappings[i][2])
    THEN prefix_mappings[i][1]
    ELSE FirstStartsWith(prefix, i + 1)

\* Variant: the captured prefix, without a trailing "!", has to equal the
\* configured prefix.
parse_commit_type_exact(hdr) ==
    LET prefix == get_conventional_commit_prefix(hdr)
    IN  IF prefix # None
        THEN FirstExact(IF prefix[Len(prefix)] = "!"
                        THEN SubSeq(prefix, 1, Len(prefix) - 1)
                        ELSE prefix, 1)
        ELSE "Undefined"

\* ConventionalCommitParser.parse_commit_type
parse_commit_type(hdr) ==
    LET prefix == get_conventional_commit_prefix(hdr)
    IN  IF prefix # None THEN FirstStartsWith(prefix, 1) ELSE "Undefined"

\* Variant: the header is not matched against the pattern, only the end of
\* its leading run is looked at.
is_breaking_change_unmatched(hdr) ==
    LET after_run == Drop(hdr, Len(TypeRun(hdr)))
    IN  after_run # <<>> /\ Head(after_run) = "!"

\* ConventionalCommitParser.is_breaking_change
is_breaking_change(hdr) ==
    LET prefix == get_conventional_commit_prefix(hdr)
    IN  IF prefix # None THEN prefix[Len(prefix)] = "!" ELSE FALSE

\* The loop of History.get_commit_stats over the commits cs: items and
\* breaking_changes hold what the commits before cs gave.
RECURSIVE commit_stats_loop(_, _, _)
commit_stats_loop(cs, items, breaking_changes) ==
    IF cs = <<>>
    THEN [commit_type_count |-> items,
          contains_breaking_changes |-> breaking_changes]
    ELSE LET ctype == parse_commit_type(Head(cs))
             counted == [t \in DOMAIN items \cup {ctype} |->
                            IF t # ctype THEN items[t]
                            ELSE IF ctype \notin DOMAIN items THEN 1
                            ELSE items[ctype] + 1]
         IN  commit_stats_loop(Tail(cs), counted,
                               breaking_changes
                                   \/ is_breaking_change(Head(cs)))

\* Variant: the breaking flag is the one of the last commit.
get_commit_stats_last_breaking(cs) ==
    [commit_type_count |-> commit_stats_loop(cs, <<>>, FALSE).commit_type_count,
     contains_breaking_changes |->
         cs # <<>> /\ is_breaking_change(cs[Len(cs)])]

\* History.get_commit_stats, when it is evaluated.
get_commit_stats(cs) == commit_stats_loop(cs, <<>>, FALSE)

Rating_UNDEFINED == 0
Rating_NOOP == 10
Rating_LOCAL == 20
Rating_DEVELOPMENT == 30
Rating_POST == 40
Rating_PRERELEASE == 50
Rating_MICRO == 60
Rating_MINOR == 70
Rating_MAJOR == 80
Rating_EPOCH == 90

\* SemanticVersionPolicy
epoch_increments == {}
major_increments == {}
minor_increments == {"Feature", "Performance", "Refactoring"}
micro_increments == {"Bugfix", "Chore", "Documentation"}
post_increments == {"Build", "CodeStyle", "ContinuousIntegration", "Test"}
dev_increments == {"Undefined"}
local_increments == {}

\* SetBasedVersionPolicy._rate_commit_type
rate_commit_type(c_type) ==
    IF c_type \in epoch_increments THEN Rating_EPOCH
    ELSE IF c_type \in major_increments THEN Rating_MAJOR
    ELSE IF c_type \in minor_increments THEN Rating_MINOR
    ELSE IF c_type \in micro_increments THEN Rating_MICRO
    ELSE IF c_type \in post_increments THEN Rating_POST
    ELSE IF c_type \in dev_increments THEN Rating_DEVELOPMENT
    ELSE IF c_type \in local_increments THEN Rating_LOCAL
    ELSE Rating_NOOP

rate_breaking_change == Rating_MAJOR

rate_dirty_repository == Rating_LOCAL

Max(S) == CHOOSE x \in S : \A y \in S : y <= x

\* Variant: a dirty repository is not rated.
get_max_rating_ignores_dirty(stats, is_clean) ==
    Max({-1}
        \cup {rate_commit_type(t) : t \in DOMAIN stats.commit_type_count}
        \cup (IF stats.contains_breaking_changes
              THEN {rate_breaking_change} ELSE {}))

\* RatingBasedVersionPolicy._get_max_rating
get_max_rating(stats, is_clean) ==
    Max({-1}
        \cup {rate_commit_type(t) : t \in DOMAIN stats.commit_type_count}
        \cup (IF stats.contains_breaking_changes
              THEN {rate_breaking_change} ELSE {})
        \cup (IF ~is_clean THEN {rate_dirty_repository} ELSE {}))

select_preview_part(preview) ==
    IF preview # None THEN preview[1] ELSE "alpha"

shift_preview_part(part) ==
    IF part \in {"a", "alpha"} THEN "beta" ELSE part

\* What get_modifier gives: a modifier (its class name and constructor
\* arguments) or NotImplementedError.
Selected(name, arguments) ==
    [kind |-> "returned", name |-> name, args |-> arguments]

DefaultArgs == [NoArgs EXCEPT !.remove_parts = TRUE, !.reset_version = TRUE]

PreReleaseArgs(part) ==
    [NoArgs EXCEPT !.pre_release_part = part, !.increment_micro = FALSE,
                   !.no_increment_micro = TRUE]

\* Variant: the alpha stage is requested whatever the current stage is.
select_micro_version_modifier_always_alpha(version) ==
    IF is_pre_release(version)
    THEN IF ~is_development_version(version)
         THEN Selected("pre-release", PreReleaseArgs("alpha"))
         ELSE Selected("reset-locals", NoArgs)
    ELSE Selected("micro", DefaultArgs)

\* RatingBasedVersionPolicy.__select_micro_version_modifier
select_micro_version_modifier(version) ==
    IF is_pre_release(version)
    THEN IF ~is_development_version(version)
         THEN Selected("pre-release",
                       PreReleaseArgs(select_preview_part(version.preview)))
         ELSE Selected("reset-locals", NoArgs)
    ELSE Selected("micro", DefaultArgs)

\* Variant: the kind of the pre-release is not shifted.
select_minor_version_modifier_no_shift(version) ==
    IF is_pre_release(version)
    THEN IF is_development_version(version)
         THEN Selected("reset-locals", NoArgs)
         ELSE Selected("pre-release",
                       PreReleaseArgs(select_preview_part(version.preview)))
    ELSE Selected("minor", DefaultArgs)

\* RatingBasedVersionPolicy.__select_minor_version_modifier
select_minor_version_modifier(version) ==
    IF is_pre_release(version)
    THEN IF is_development_version(version)
         THEN Selected("reset-locals", NoArgs)
         ELSE Selected("pre-release",
                       PreReleaseArgs(shift_preview_part(
                           select_preview_part(version.preview))))
    ELSE Selected("minor", DefaultArgs)

\* Variant: the micro rating is tested before the minor rating.
get_modifier_micro_first(version, stats, is_clean) ==
    LET max_rating == get_max_rating(stats, is_clean)
    IN  IF DOMAIN stats.commit_type_count = {}
        THEN Selected("noop", NoArgs)
        ELSE IF max_rating >= Rating_EPOCH THEN Selected("epoch", DefaultArgs)
        ELSE IF max_rating >= Rating_MAJOR THEN Selected("major", DefaultArgs)
        ELSE IF max_rating >= Rating_MICRO
        THEN select_micro_version_modifier(version)
        ELSE IF max_rating >= Rating_PRERELEASE
        THEN Selected("prerelease", NoArgs)
        ELSE IF max_rating >= Rating_POST THEN Selected("post", NoArgs)
        ELSE IF max_rating >= Rating_DEVELOPMENT THEN Selected("dev", NoArgs)
        ELSE IF max_rating >= Rating_LOCAL
        THEN [kind |-> "NotImplementedError", name |-> "none", args |-> NoArgs]
        ELSE Selected("noop", NoArgs)

\* RatingBasedVersionPolicy.get_modifier
get_modifier(version, stats, is_clean) ==
    LET max_rating == get_max_rating(stats, is_clean)
    IN  IF DOMAIN stats.commit_type_count = {}
        THEN Selected("noop", NoArgs)
        ELSE IF max_rating >= Rating_EPOCH THEN Selected("epoch", DefaultArgs)
        ELSE IF max_rating >= Rating_MAJOR THEN Selected("major", DefaultArgs)
        ELSE IF max_rating >= Rating_MINOR
        THEN select_minor_version_modifier(version)
        ELSE IF max_rating >= Rating_MICRO
        THEN select_micro_version_modifier(version)
        ELSE IF max_rating >= Rating_PRERELEASE
        THEN Selected("prerelease", NoArgs)
        ELSE IF max_rating >= Rating_POST THEN Selected("post", NoArgs)
        ELSE IF max_rating >= Rating_DEVELOPMENT THEN Selected("dev", NoArgs)
        ELSE IF max_rating >= Rating_LOCAL
        THEN [kind |-> "NotImplementedError", name |-> "none", args |-> NoArgs]
        ELSE Selected("noop", NoArgs)

\* create_new_version of the modifier that get_modifier built.
create_new_version(name, arguments, cv) ==
    CASE name = "noop" -> Returned(cv)
      [] name = "epoch" ->
            Epoch_create_new_version(cv, arguments.remove_parts,
                                     arguments.reset_version)
      [] name = "major" ->
            ReleaseVersionModifier_create_new_version(
                cv, MAJOR_PART, arguments.remove_parts)
      [] name = "minor" ->
            ReleaseVersionModifier_create_new_version(
                cv, MINOR_PART, arguments.remove_parts)
      [] name = "micro" ->
            ReleaseVersionModifier_create_new_version(
                cv, MICRO_PART, arguments.remove_parts)
      [] name = "pre-release" ->
            PreReleaseIncrementing_create_new_version(
                cv, arguments.pre_release_part, arguments.increment_micro,
                arguments.no_increment_micro)
      [] name = "reset-locals" -> ResetNonSemanticParts_create_new_version(cv)
      [] name = "prerelease" -> PoetryPreRelease_create_new_version(cv)
      [] name = "post" -> Post_create_new_version(cv)
      [] name = "dev" -> Development_create_new_version(cv)

(***************************************************************************)
(* actions/base.py: running a command.  A Namespace or a keyword           *)
(* dictionary is a function from its keys to their values; pop removes a   *)
(* key from it.                                                            *)
(***************************************************************************)
Get(kwargs, key, dflt) == IF key \in DOMAIN kwargs THEN kwargs[key] ELSE dflt

Pop(kwargs, key) == [k \in DOMAIN kwargs \ {key} |-> kwargs[k]]

\* create_new_version of the command the registry built for a name.
command_create_new_version(name, arguments, cv) ==
    IF name = "no-pre-release" THEN Finalizing_create_new_version(cv)
    ELSE IF name = "prepatch" THEN PrePatch_create_new_version(cv)
    ELSE create_new_version(name, arguments, cv)

\* Whether create_new_version hands back the very object that is the
\* modifier's current_version: only _NoopVersionModifier does, every
\* other modifier builds a new Version.
returns_current_version_object(name) == name = "noop"

\* The modifier as run finds it.
ModifierState(cv) ==
    [current_version |-> cv, has_new_version |-> FALSE,
     save_version_calls |-> <<>>, raised |-> "none"]

\* Variant: the new version is saved on a dry run as well.
VersionModifier_run_saves_on_dry_run(state, name, arguments, dry) ==
    LET next_version ==
            command_create_new_version(name, arguments,
                                       state.current_version)
    IN  IF next_version.kind # "returned"
        THEN [state EXCEPT !.raised = next_version.kind]
        ELSE IF returns_current_version_object(name) THEN state
        ELSE [state EXCEPT
                 !.save_version_calls = Append(@, next_version.version),
                 !.current_version = next_version.version,
                 !.has_new_version = TRUE]

\* VersionModifier.run
VersionModifier_run(state, name, arguments, dry) ==
    LET next_version ==
            command_create_new_version(name, arguments,
                                       state.current_version)
    IN  IF next_version.kind # "returned"
        THEN [state EXCEPT !.raised = next_version.kind]
        ELSE IF returns_current_version_object(name) THEN state
        ELSE IF ~dry
        THEN [state EXCEPT
                 !.save_version_calls = Append(@, next_version.version),
                 !.current_version = next_version.version,
                 !.has_new_version = TRUE]
        ELSE state

\* VersionModifier.after_run: the tags it creates, given the keyword
\* arguments of the hook.
VersionModifier_after_run(state, kwargs) ==
    LET tag == Get(kwargs, "tag", FALSE)
        dry == Get(Pop(kwargs, "tag"), "dry_run", TRUE)
    IN  IF state.has_new_version /\ tag /\ ~dry
        THEN IF Get(kwargs, "vcs_provider", FALSE)
             THEN [raised |-> "none", tags |-> <<state.current_version>>]
             ELSE [raised |-> "ValueError", tags |-> <<>>]
        ELSE [raised |-> "none", tags |-> <<>>]

(***************************************************************************)
(* actions/hook.py: the hooks.  A hook reads the arguments through         *)
(* vars(args), the dictionary of the Namespace itself, so each pop removes *)
(* the key from the arguments every later hook sees.  A hook call gives    *)
(* the arguments it leaves, the error it raises and the writes it makes    *)
(* to the VCS.                                                             *)
(***************************************************************************)
HookResult(kwargs, error, tags, check_ins) ==
    [options |-> kwargs, raised |-> error, tags |-> tags,
     check_ins |-> check_ins]

\* CommitChanges.pre_action_hook
CommitChanges_pre_action_hook(kwargs) == HookResult(kwargs, "none", <<>>, 0)

\* TagChanges.pre_action_hook: the three operands are evaluated left to
\* right and only as far as needed.
TagChanges_pre_action_hook(kwargs, is_clean) ==
    IF is_clean THEN HookResult(kwargs, "none", <<>>, 0)
    ELSE IF Get(kwargs, "dry_run", FALSE)
    THEN HookResult(Pop(kwargs, "dry_run"), "none", <<>>, 0)
    ELSE LET left == Pop(Pop(kwargs, "dry_run"), "tag")
         IN  IF Get(kwargs, "tag", FALSE)
             THEN HookResult(left, "RuntimeError", <<>>, 0)
             ELSE HookResult(left, "none", <<>>, 0)

\* CommitChanges.post_action_hook
CommitChanges_post_action_hook(kwargs, version_changed) ==
    IF ~version_changed THEN HookResult(kwargs, "none", <<>>, 0)
    ELSE IF ~Get(kwargs, "commit", FALSE)
    THEN HookResult(Pop(kwargs, "commit"), "none", <<>>, 0)
    ELSE LET left == Pop(Pop(kwargs, "commit"), "dry_run")
         IN  IF ~Get(kwargs, "dry_run", FALSE)
             THEN HookResult(left, "none", <<>>, 1)
             ELSE HookResult(left, "none", <<>>, 0)

\* TagChanges.post_action_hook; args.dirty is read as an attribute and is
\* never popped.
TagChanges_post_action_hook(kwargs, version_changed, is_clean, new) ==
    IF ~version_changed THEN HookResult(kwargs, "none", <<>>, 0)
    ELSE IF Get(kwargs, "dry_run", FALSE)
    THEN HookResult(Pop(kwargs, "dry_run"), "none", <<>>, 0)
    ELSE LET left == Pop(Pop(kwargs, "dry_run"), "tag")
         IN  IF ~Get(kwargs, "tag", FALSE)
             THEN HookResult(left, "none", <<>>, 0)
             ELSE IF ~kwargs["dirty"] /\ ~is_clean
             THEN HookResult(left, "RuntimeError", <<>>, 0)
             ELSE HookResult(left, "none", <<new>>, 0)

pre_action_hook(hook, kwargs, is_clean) ==
    IF hook = "TagChanges" THEN TagChanges_pre_action_hook(kwargs, is_clean)
    ELSE CommitChanges_pre_action_hook(kwargs)

post_action_hook(hook, kwargs, version_changed, is_clean, new) ==
    IF hook = "TagChanges"
    THEN TagChanges_post_action_hook(kwargs, version_changed, is_clean, new)
    ELSE CommitChanges_post_action_hook(kwargs, version_changed)

(***************************************************************************)
(* The state machine: a modifier is constructed around a current version   *)
(* and create_new_version is called once.                                  *)
(***************************************************************************)
ReleaseTuples == UNION {[1..n -> 0..MaxPart] : n \in 0..MaxLen}

Previews == {None} \cup {<<k, n>> : k \in PreviewKinds, n \in 0..MaxPre}

Posts == {None} \cup {<<"post", n>> : n \in 0..MaxPost}

Devs == {None} \cup {<<"dev", n>> : n \in 0..MaxDev}

Locals == {None, <<"local1">>}

\* Every Version the constructor accepts whose fields are of the declared
\* types: the preview kinds are the six of the Literal in core/version.py:51
\* (from_string only produces a, b and rc), and release_tuple has any length.
Versions ==
    {v \in [epoch : 0..MaxEpoch, release_tuple : ReleaseTuples,
            preview : Previews, post : Posts, dev : Devs, local : Locals] :
        ~post_init_raises(v)}

NoComparison == [eq |-> "none", lt |-> "none", gt |-> "none"]

CompareIdle == other = None /\ comparison = NoComparison

NoStatistics == [commit_type_count |-> <<>>,
                 contains_breaking_changes |-> FALSE]

PolicyIdle ==
    /\ statistics = NoStatistics
    /\ is_clean_repository = TRUE
    /\ selected = "none"

CommitIdle ==
    /\ header = <<>>
    /\ commit_type = "none"
    /\ breaking_change = "none"

HistoryIdle ==
    /\ commits = <<>>
    /\ get_commit_stats_cache = None
    /\ commit_stats = None
    /\ accesses = 0

VcsIdle == CommitIdle /\ HistoryIdle

RunIdle ==
    /\ command_line = <<>>
    /\ options = <<>>
    /\ dry_run = FALSE
    /\ vcs_is_clean = TRUE
    /\ hooks = <<>>
    /\ pc = <<"idle", 0>>
    /\ raised = "none"
    /\ save_version_calls = <<>>
    /\ has_new_version = FALSE
    /\ created_tags = <<>>
    /\ check_in_deltas_calls = 0
    /\ old_version = None
    /\ returned_version = None

StringIdle ==
    /\ text = <<>>
    /\ parsed = NotCalled
    /\ formatted = None
    /\ reparsed = NotCalled
    /\ reformatted = None

Init ==
    /\ current_version \in Versions
    /\ modifier = "none"
    /\ args = NoArgs
    /\ outcome = NotCalled
    /\ CompareIdle
    /\ StringIdle
    /\ RunIdle
    /\ PolicyIdle
    /\ VcsIdle

Call(name, arguments, result) ==
    /\ modifier = "none"
    /\ modifier' = name
    /\ args' = arguments
    /\ outcome' = result
    /\ UNCHANGED <<run_vars,
                   current_version, compare_vars, string_vars, policy_vars,
                   vcs_vars>>

MajorIncrement ==
    \E remove_parts \in BOOLEAN :
        Call("major", [NoArgs EXCEPT !.remove_parts = remove_parts],
             ReleaseVersionModifier_create_new_version(
                 current_version, MAJOR_PART, remove_parts))

MinorIncrement ==
    \E remove_parts \in BOOLEAN :
        Call("minor", [NoArgs EXCEPT !.remove_parts = remove_parts],
             ReleaseVersionModifier_create_new_version(
                 current_version, MINOR_PART, remove_parts))

MicroIncrement ==
    \E remove_parts \in BOOLEAN :
        Call("micro", [NoArgs EXCEPT !.remove_parts = remove_parts],
             ReleaseVersionModifier_create_new_version(
                 current_version, MICRO_PART, remove_parts))

Finalize ==
    Call("no-pre-release", NoArgs,
         Finalizing_create_new_version(current_version))

EpochIncrement ==
    \E remove_parts \in BOOLEAN, reset_version \in BOOLEAN :
        Call("epoch", [NoArgs EXCEPT !.remove_parts = remove_parts,
                                     !.reset_version = reset_version],
             Epoch_create_new_version(current_version, remove_parts,
                                      reset_version))

AlphaIncrement ==
    \E increment_micro \in BOOLEAN :
        Call("alpha", [NoArgs EXCEPT !.increment_micro = increment_micro],
             PreRelease_create_new_version("alpha", current_version,
                                           increment_micro))

BetaIncrement ==
    \E increment_micro \in BOOLEAN :
        Call("beta", [NoArgs EXCEPT !.increment_micro = increment_micro],
             PreRelease_create_new_version("beta", current_version,
                                           increment_micro))

ReleaseCandidateIncrement ==
    \E increment_micro \in BOOLEAN :
        Call("rc", [NoArgs EXCEPT !.increment_micro = increment_micro],
             PreRelease_create_new_version("rc", current_version,
                                           increment_micro))

DevelopmentIncrement ==
    Call("dev", NoArgs, Development_create_new_version(current_version))

PostIncrement ==
    Call("post", NoArgs, Post_create_new_version(current_version))

PreMajor ==
    Call("premajor", NoArgs, PreMajor_create_new_version(current_version))

PreMinor ==
    Call("preminor", NoArgs, PreMinor_create_new_version(current_version))

PrePatch ==
    Call("prepatch", NoArgs, PrePatch_create_new_version(current_version))

PoetryPreRelease ==
    Call("prerelease", NoArgs,
         PoetryPreRelease_create_new_version(current_version))

Next ==
    \/ MajorIncrement
    \/ MinorIncrement
    \/ MicroIncrement
    \/ Finalize
    \/ EpochIncrement
    \/ AlphaIncrement
    \/ BetaIncrement
    \/ ReleaseCandidateIncrement
    \/ DevelopmentIncrement
    \/ PostIncrement
    \/ PreMajor
    \/ PreMinor
    \/ PrePatch
    \/ PoetryPreRelease

Spec == Init /\ [][Next]_vars

(***************************************************************************)
(* The pre-release increments: the three stage modifiers, the Poetry-like  *)
(* prerelease and the pre-release command, applied to versions that carry  *)
(* every combination of preview, post, dev and local.                      *)
(***************************************************************************)
\* The pre-release command: --pre is absent or one of the parser's
\* choices, --micro and --no-micro exclude each other.
PreReleaseParts == {NoPart, "alpha", "beta", "rc", "c"}

PreRelease ==
    \E part \in PreReleaseParts,
       flags \in {<<FALSE, FALSE>>, <<TRUE, FALSE>>, <<FALSE, TRUE>>} :
        Call("pre-release",
             [NoArgs EXCEPT !.pre_release_part = part,
                            !.increment_micro = flags[1],
                            !.no_increment_micro = flags[2]],
             PreReleaseIncrementing_create_new_version(
                 current_version, part, flags[1], flags[2]))

PreReleaseVersions ==
    {Version(epoch, release_tuple, preview, post, dev, local) :
        epoch \in {0, MaxEpoch},
        release_tuple \in {<<1>>, <<1, 0, 0>>, <<1, 0, 1>>},
        preview \in {None} \cup {<<kind, MaxPre>> : kind \in PreviewKinds},
        post \in Posts, dev \in {None, <<"dev", MaxDev>>}, local \in Locals}

InitPreRelease ==
    /\ current_version \in PreReleaseVersions
    /\ modifier = "none"
    /\ args = NoArgs
    /\ outcome = NotCalled
    /\ CompareIdle
    /\ StringIdle
    /\ RunIdle
    /\ PolicyIdle
    /\ VcsIdle

NextPreRelease ==
    \/ AlphaIncrement
    \/ BetaIncrement
    \/ ReleaseCandidateIncrement
    \/ PoetryPreRelease
    \/ PreRelease

SpecPreRelease == InitPreRelease /\ [][NextPreRelease]_vars

(***************************************************************************)
(* Comparing two versions: Version.__eq__ and Version.__lt__ in both       *)
(* directions.                                                             *)
(***************************************************************************)
CompareVersions ==
    {Version(epoch, release_tuple, preview, post, dev, local) :
        epoch \in {0, MaxEpoch},
        release_tuple \in {<<1>>, <<1, 0, 0>>, <<1, 0, 1>>},
        preview \in {None} \cup {<<kind, MaxPre>> : kind \in PreviewKinds},
        post \in Posts, dev \in {None, <<"dev", MaxDev>>}, local \in Locals}

InitCompare ==
    /\ current_version \in CompareVersions
    /\ other \in CompareVersions
    /\ comparison = NoComparison
    /\ modifier = "none"
    /\ args = NoArgs
    /\ outcome = NotCalled
    /\ StringIdle
    /\ RunIdle
    /\ PolicyIdle
    /\ VcsIdle

Compare ==
    /\ comparison = NoComparison
    /\ comparison' =
           [eq |-> IF VersionEq(current_version, other)
                   THEN "True" ELSE "False",
            lt |-> Version_lt(current_version, other),
            gt |-> Version_lt(other, current_version)]
    /\ UNCHANGED <<run_vars,
                   modifier_vars, other, string_vars, policy_vars, vcs_vars>>

NextCompare == Compare

SpecCompare == InitCompare /\ [][NextCompare]_vars

(***************************************************************************)
(* Parsing and formatting: a string is parsed, the version formatted, the  *)
(* formatted string parsed again and that version formatted again.         *)
(***************************************************************************)
EpochTexts == {<<>>} \cup {StrOf(n) \o <<"!">> : n \in {0, MaxEpoch}}

ReleaseTexts ==
    {JoinDots([i \in 1..n |-> p]) : n \in 1..(MaxLen + 1), p \in 0..MaxPart}

PreSpellings == PreLetters \cup {"RC"}

PreTexts ==
    {<<>>}
    \cup {<<l>> \o StrOf(MaxPre) : l \in PreSpellings}
    \cup {<<"-", l, "_">> : l \in PreSpellings}

PostTexts ==
    {<<>>, <<"r">>}
    \cup {<<"-">> \o StrOf(n) : n \in 0..MaxPost}
    \cup {<<".", "post">> \o StrOf(n) : n \in 0..MaxPost}
    \cup {<<"_", "rev", "-", "0">> \o StrOf(MaxPost)}

DevTexts ==
    {<<>>, <<"dev">>}
    \cup {<<".", "dev">> \o StrOf(n) : n \in 0..MaxDev}
    \cup {<<"-", "DEV", "_">> \o StrOf(MaxDev)}

LocalTexts == {<<>>, <<"+", "local1">>, <<"+", "LOCAL1", "-", "0", "1">>}

ValidTexts ==
    {v \o e \o r \o pre \o post \o dev \o local :
        v \in {<<>>, <<"v">>}, e \in EpochTexts, r \in ReleaseTexts,
        pre \in PreTexts, post \in PostTexts, dev \in DevTexts,
        local \in LocalTexts}

InvalidTexts ==
    {<<>>, <<"v">>, <<"1", ".">>, <<"1", "+">>, <<"1", "_", "1">>,
     <<"1", "a", "1", "b", "1">>, <<"1", ".", "post", "1", "a", "1">>}

InitStrings ==
    /\ text \in ValidTexts \cup InvalidTexts
    /\ parsed = NotCalled
    /\ formatted = None
    /\ reparsed = NotCalled
    /\ reformatted = None
    /\ current_version = default
    /\ modifier = "none"
    /\ args = NoArgs
    /\ outcome = NotCalled
    /\ CompareIdle
    /\ PolicyIdle
    /\ VcsIdle
    /\ RunIdle

FromString ==
    /\ parsed = NotCalled
    /\ parsed' = from_string(text)
    /\ UNCHANGED <<run_vars,
                   modifier_vars, compare_vars, policy_vars, vcs_vars,
                   text, formatted, reparsed,
                   reformatted>>

Format ==
    /\ parsed.kind = "returned"
    /\ formatted = None
    /\ formatted' = format(parsed.version)
    /\ UNCHANGED <<run_vars,
                   modifier_vars, compare_vars, policy_vars, vcs_vars,
                   text, parsed, reparsed,
                   reformatted>>

FromFormatted ==
    /\ formatted # None
    /\ reparsed = NotCalled
    /\ reparsed' = from_string(formatted)
    /\ UNCHANGED <<run_vars,
                   modifier_vars, compare_vars, policy_vars, vcs_vars,
                   text, parsed, formatted,
                   reformatted>>

Reformat ==
    /\ reparsed.kind = "returned"
    /\ reformatted = None
    /\ reformatted' = format(reparsed.version)
    /\ UNCHANGED <<run_vars,
                   modifier_vars, compare_vars, policy_vars, vcs_vars,
                   text, parsed, formatted,
                   reparsed>>

NextStrings == FromString \/ Format \/ FromFormatted \/ Reformat

SpecStrings == InitStrings /\ [][NextStrings]_vars

(***************************************************************************)
(* The version policy: get_modifier is asked for the modifier of a         *)
(* history, and the modifier it returns is applied.                        *)
(***************************************************************************)
PolicyVersions ==
    {Version(0, release_tuple, preview, rest[1], dev, rest[2]) :
        release_tuple \in {<<1>>, <<1, 2, 3>>},
        preview \in {None} \cup {<<kind, MaxPre>> : kind \in PreviewKinds},
        dev \in {None, <<"dev", MaxDev>>},
        rest \in {<<None, None>>, <<<<"post", MaxPost>>, <<"local1">>>>}}

CommitTypeCounts ==
    UNION {[types -> {1, MaxCount}] :
              types \in {t \in SUBSET CommitTypes : Cardinality(t) <= MaxTypes}}

\* CommitStatistics as get_commit_stats builds them: only a commit can be
\* a breaking change.
Statistics ==
    {st \in [commit_type_count : CommitTypeCounts,
             contains_breaking_changes : BOOLEAN] :
        st.contains_breaking_changes => DOMAIN st.commit_type_count # {}}

InitPolicy ==
    /\ current_version \in PolicyVersions
    /\ modifier = "none"
    /\ args = NoArgs
    /\ outcome = NotCalled
    /\ PolicyIdle
    /\ CompareIdle
    /\ StringIdle
    /\ RunIdle
    /\ VcsIdle

GetModifier ==
    /\ selected = "none"
    /\ \E stats \in Statistics, is_clean \in BOOLEAN :
          LET m == get_modifier(current_version, stats, is_clean)
          IN  /\ statistics' = stats
              /\ is_clean_repository' = is_clean
              /\ selected' = m.kind
              /\ modifier' = m.name
              /\ args' = m.args
    /\ UNCHANGED <<run_vars,
                   current_version, outcome, compare_vars, string_vars,
                   vcs_vars>>

CreateNewVersion ==
    /\ selected = "returned"
    /\ outcome = NotCalled
    /\ outcome' = create_new_version(modifier, args, current_version)
    /\ UNCHANGED <<run_vars,
                   current_version, modifier, args, compare_vars,
                   string_vars, policy_vars, vcs_vars>>

NextPolicy == GetModifier \/ CreateNewVersion

SpecPolicy == InitPolicy /\ [][NextPolicy]_vars

(***************************************************************************)
(* Classifying a commit: the header of a commit is parsed for its type.    *)
(***************************************************************************)
ConfiguredWords == {prefix_mappings[i][2] : i \in 1..Len(prefix_mappings)}

OtherWords ==
    {<<>>,
     <<"f", "e", "a", "t", "u", "r", "e">>,
     <<"f", "i", "x", "t", "u", "r", "e">>,
     <<"t", "e", "s", "t", "i", "n", "g">>,
     <<"w", "i", "p">>,
     <<"F", "e", "a", "t">>,
     <<" ", "f", "e", "a", "t">>}

Headers ==
    {word \o scope \o bang \o colon \o space \o subject :
        word \in ConfiguredWords \cup OtherWords,
        scope \in {<<>>, <<"(", "x", ")">>},
        bang \in {<<>>, <<"!">>, <<"!", "!">>},
        colon \in {<<>>, <<":">>},
        space \in {<<>>, <<" ">>, <<"\n">>},
        subject \in {<<>>, <<"x">>}}

InitCommit ==
    /\ header \in Headers
    /\ commit_type = "none"
    /\ breaking_change = "none"
    /\ HistoryIdle
    /\ current_version = default
    /\ modifier = "none"
    /\ args = NoArgs
    /\ outcome = NotCalled
    /\ CompareIdle
    /\ StringIdle
    /\ RunIdle
    /\ PolicyIdle

ParseCommitType ==
    /\ commit_type = "none"
    /\ commit_type' = parse_commit_type(header)
    /\ UNCHANGED <<run_vars,
                   modifier_vars, compare_vars, string_vars, policy_vars,
                   history_vars, header, breaking_change>>

\* Commit.is_breaking_change, a cached property: evaluated once.
IsBreakingChange ==
    /\ breaking_change = "none"
    /\ breaking_change' = IF is_breaking_change(header) THEN "True"
                          ELSE "False"
    /\ UNCHANGED <<run_vars,
                   modifier_vars, compare_vars, string_vars, policy_vars,
                   history_vars, header, commit_type>>

NextCommit == ParseCommitType \/ IsBreakingChange

SpecCommit == InitCommit /\ [][NextCommit]_vars

(***************************************************************************)
(* The statistics of a history: a History is built over its commits and    *)
(* get_commit_stats, a cached property, is read any number of times.       *)
(***************************************************************************)
MaxCommits == 3
MaxAccesses == 2

HistoryHeaders ==
    {<<"f", "e", "a", "t", ":", " ", "x">>,
     <<"f", "e", "a", "t", "!", ":", " ", "x">>,
     <<"f", "i", "x", ":", " ", "x">>,
     <<"w", "i", "p">>}

Histories == UNION {[1..n -> HistoryHeaders] : n \in 0..MaxCommits}

InitHistory ==
    /\ commits \in Histories
    /\ get_commit_stats_cache = None
    /\ commit_stats = None
    /\ accesses = 0
    /\ current_version = default
    /\ modifier = "none"
    /\ args = NoArgs
    /\ outcome = NotCalled
    /\ CompareIdle
    /\ StringIdle
    /\ RunIdle
    /\ PolicyIdle
    /\ CommitIdle

\* The first read of the property evaluates the method and stores its
\* result on the instance.
GetCommitStats ==
    /\ get_commit_stats_cache = None
    /\ accesses < MaxAccesses
    /\ get_commit_stats_cache' = <<get_commit_stats(commits)>>
    /\ commit_stats' = <<get_commit_stats(commits)>>
    /\ accesses' = accesses + 1
    /\ UNCHANGED <<run_vars,
                   modifier_vars, compare_vars, string_vars, policy_vars,
                   commit_vars, commits>>

\* A later read returns the stored result.
GetCachedCommitStats ==
    /\ get_commit_stats_cache # None
    /\ accesses < MaxAccesses
    /\ commit_stats' = get_commit_stats_cache
    /\ accesses' = accesses + 1
    /\ UNCHANGED <<run_vars,
                   modifier_vars, compare_vars, string_vars, policy_vars,
                   commit_vars, commits, get_commit_stats_cache>>

NextHistory == GetCommitStats \/ GetCachedCommitStats

SpecHistory == InitHistory /\ [][NextHistory]_vars

(***************************************************************************)
(* Running a command: ActionRegistry.execute builds the command selected   *)
(* on the command line around the current version and calls before_run,    *)
(* run and after_run on it.                                                *)
(***************************************************************************)
RunCommands ==
    {<<"noop", NoArgs>>, <<"no-pre-release", NoArgs>>,
     <<"micro", DefaultArgs>>, <<"reset-locals", NoArgs>>,
     <<"dev", NoArgs>>, <<"post", NoArgs>>, <<"prepatch", NoArgs>>}
    \cup {<<"pre-release", [NoArgs EXCEPT !.pre_release_part = part]>> :
             part \in {"alpha", "beta"}}

InitRun ==
    /\ current_version \in PolicyVersions
    /\ \E command \in RunCommands :
          modifier = command[1] /\ args = command[2]
    /\ outcome = NotCalled
    /\ command_line \in [{"dry_run", "tag"} -> BOOLEAN]
    /\ options = command_line
    /\ pc = <<"execute", 0>>
    /\ dry_run = FALSE
    /\ vcs_is_clean = TRUE
    /\ hooks = <<>>
    /\ raised = "none"
    /\ save_version_calls = <<>>
    /\ has_new_version = FALSE
    /\ created_tags = <<>>
    /\ check_in_deltas_calls = 0
    /\ old_version = None
    /\ returned_version = None
    /\ CompareIdle
    /\ StringIdle
    /\ PolicyIdle
    /\ VcsIdle

\* execute up to and including before_run: dry_run is taken from the
\* arguments, the command is built, before_run only logs.
BeforeRun ==
    /\ pc = <<"execute", 0>>
    /\ dry_run' = Get(options, "dry_run", FALSE)
    /\ old_version' = current_version
    /\ pc' = <<"run", 0>>
    /\ UNCHANGED <<modifier_vars, compare_vars, string_vars, policy_vars,
                   vcs_vars, command_line, options, vcs_is_clean, hooks, raised,
                   save_version_calls, has_new_version, created_tags,
                   check_in_deltas_calls, returned_version>>

\* command.run(dry_run=dry_run); an error leaves execute.
Run ==
    /\ pc = <<"run", 0>>
    /\ LET after == VersionModifier_run(ModifierState(current_version),
                                        modifier, args, dry_run)
       IN  /\ outcome' = command_create_new_version(modifier, args,
                                                     current_version)
           /\ current_version' = after.current_version
           /\ has_new_version' = after.has_new_version
           /\ save_version_calls' = after.save_version_calls
           /\ raised' = after.raised
           /\ pc' = IF after.raised = "none" THEN <<"after_run", 0>>
                    ELSE <<"raised", 0>>
    /\ UNCHANGED <<modifier, args, compare_vars, string_vars, policy_vars,
                   vcs_vars, command_line,
                   options, dry_run, vcs_is_clean, hooks,
                   created_tags, check_in_deltas_calls, old_version,
                   returned_version>>

\* after_run with the arguments of the command line and the provider.
AfterRun ==
    /\ pc = <<"after_run", 0>>
    /\ LET hook_args == [k \in DOMAIN options \cup {"vcs_provider"} |->
                            IF k = "vcs_provider" THEN TRUE ELSE options[k]]
           after == VersionModifier_after_run(
                        [current_version |-> current_version,
                         has_new_version |-> has_new_version], hook_args)
       IN  /\ created_tags' = created_tags \o after.tags
           /\ raised' = after.raised
           /\ pc' = IF after.raised = "none" THEN <<"done", 0>>
                    ELSE <<"raised", 0>>
    /\ UNCHANGED <<modifier_vars, compare_vars, string_vars, policy_vars,
                   vcs_vars, command_line,
                   options, dry_run, vcs_is_clean, hooks,
                   save_version_calls, has_new_version,
                   check_in_deltas_calls, old_version, returned_version>>

NextRun == BeforeRun \/ Run \/ AfterRun

SpecRun == InitRun /\ [][NextRun]_vars

(***************************************************************************)
(* Constructing a Version: the caller passes any fields, the preview kind  *)
(* being any string, and the constructor runs __post_init__.  Here         *)
(* current_version holds the fields passed.                                *)
(***************************************************************************)
AnyKinds == PreviewKinds \cup {"x"}

ConstructorArguments ==
    [epoch : {0, MaxEpoch},
     release_tuple : {<<1>>, <<1, 0, 0>>},
     preview : {None} \cup {<<kind, MaxPre>> : kind \in AnyKinds},
     post : {None, <<"post", MaxPost>>},
     dev : {None, <<"dev", MaxDev>>},
     local : Locals]

InitConstruct ==
    /\ current_version \in ConstructorArguments
    /\ modifier = "none"
    /\ args = NoArgs
    /\ outcome = NotCalled
    /\ CompareIdle
    /\ StringIdle
    /\ RunIdle
    /\ PolicyIdle
    /\ VcsIdle

ConstructVersion ==
    /\ modifier = "none"
    /\ modifier' = "Version"
    /\ outcome' = Construct(current_version)
    /\ UNCHANGED <<run_vars, current_version, args, compare_vars,
                   string_vars, policy_vars, vcs_vars>>

NextConstruct == ConstructVersion

SpecConstruct == InitConstruct /\ [][NextConstruct]_vars

(***************************************************************************)
(* Running an action between the hooks: HookExecutor.run calls the         *)
(* pre-action hooks in the order of their registration, the executor, and  *)
(* the post-action hooks in the same order.  The executor runs the         *)
(* command selected on the command line and returns a Version; dry_run is  *)
(* the flag of the command line, passed both in args and as the            *)
(* parameter.                                                              *)
(***************************************************************************)
MaxHooks == 2

HookTypes == {"CommitChanges", "TagChanges"}

Registrations == UNION {[1..n -> HookTypes] : n \in 0..MaxHooks}

HookVersions ==
    {Version(0, <<1, 0, 0>>, None, None, None, None),
     Version(0, <<1, 0, 0>>, <<"b", 1>>, None, None, None)}

ExecutorCommands ==
    {<<"noop", NoArgs>>, <<"no-pre-release", NoArgs>>,
     <<"micro", DefaultArgs>>,
     <<"pre-release", [NoArgs EXCEPT !.pre_release_part = "alpha"]>>}

InitHooks ==
    /\ current_version \in HookVersions
    /\ \E command \in ExecutorCommands :
          modifier = command[1] /\ args = command[2]
    /\ outcome = NotCalled
    /\ command_line \in [{"dry_run", "tag", "commit", "dirty"} -> BOOLEAN]
    /\ options = command_line
    /\ dry_run = options["dry_run"]
    /\ vcs_is_clean \in BOOLEAN
    /\ hooks \in Registrations
    /\ pc = <<"pre", 1>>
    /\ raised = "none"
    /\ save_version_calls = <<>>
    /\ has_new_version = FALSE
    /\ created_tags = <<>>
    /\ check_in_deltas_calls = 0
    /\ old_version = None
    /\ returned_version = None
    /\ CompareIdle
    /\ StringIdle
    /\ PolicyIdle
    /\ VcsIdle

\* What a hook call leaves behind; an error leaves HookExecutor.run.
HookCalled(phase, result) ==
    /\ options' = result.options
    /\ raised' = result.raised
    /\ created_tags' = created_tags \o result.tags
    /\ check_in_deltas_calls' = check_in_deltas_calls + result.check_ins
    /\ pc' = IF result.raised = "none" THEN <<phase, pc[2] + 1>>
             ELSE <<"raised", pc[2]>>

PreActionHook ==
    /\ pc[1] = "pre"
    /\ pc[2] <= Len(hooks)
    /\ HookCalled("pre", pre_action_hook(hooks[pc[2]], options,
                                         vcs_is_clean))
    /\ UNCHANGED <<modifier_vars, compare_vars, string_vars, policy_vars,
                   vcs_vars, command_line, dry_run, vcs_is_clean, hooks,
                   save_version_calls, has_new_version, old_version,
                   returned_version>>

\* old_version = version; version = executor.run(dry_run).  On a dry run
\* the executor may return the version it would write or the one it was
\* given.
ExecutorRun ==
    /\ pc[1] = "pre"
    /\ pc[2] > Len(hooks)
    /\ LET next_version ==
               command_create_new_version(modifier, args, current_version)
       IN  /\ outcome' = next_version
           /\ old_version' = current_version
           /\ IF next_version.kind # "returned"
              THEN /\ raised' = next_version.kind
                   /\ pc' = <<"raised", 0>>
                   /\ returned_version' = returned_version
              ELSE /\ raised' = raised
                   /\ pc' = <<"post", 1>>
                   /\ returned_version' \in
                          {next_version.version}
                          \cup IF dry_run THEN {current_version} ELSE {}
    /\ UNCHANGED <<current_version, modifier, args, compare_vars,
                   string_vars, policy_vars, vcs_vars, command_line,
                   options, dry_run,
                   vcs_is_clean, hooks, save_version_calls,
                   has_new_version, created_tags, check_in_deltas_calls>>

PostActionHook ==
    /\ pc[1] = "post"
    /\ pc[2] <= Len(hooks)
    /\ HookCalled("post",
                  post_action_hook(hooks[pc[2]], options,
                                   ~VersionEq(old_version, returned_version),
                                   vcs_is_clean, returned_version))
    /\ UNCHANGED <<modifier_vars, compare_vars, string_vars, policy_vars,
                   vcs_vars, command_line, dry_run, vcs_is_clean, hooks,
                   save_version_calls, has_new_version, old_version,
                   returned_version>>

NextHooks == PreActionHook \/ ExecutorRun \/ PostActionHook

SpecHooks == InitHooks /\ [][NextHooks]_vars

TypeOK ==
    /\ current_version \in Versions
    /\ outcome.kind \in {"none", "returned", "ValueError",
                         "PreviewMismatchError"}

(***************************************************************************)
(* Properties of create_new_version.  In every state after the call,       *)
(* current_version is the version the modifier was constructed around,     *)
(* args its constructor flags and outcome what the call did.               *)
(***************************************************************************)
returned == outcome.kind = "returned"

new_version == outcome.version

a == major(current_version)

b == minor(current_version)

c == micro(current_version)

\* C1: Major/Minor/Micro increment return release (a+1,0,0), (a,b+1,0) and
\* (a,b,c+1) of the current release (a,b,c) padded to three components, for
\* either value of remove_parts and any preview/post/dev/local.
C1_ReleaseIncrementZeroesLaterParts ==
    /\ modifier = "major" =>
           returned /\ new_version.release_tuple = <<a + 1, 0, 0>>
    /\ modifier = "minor" =>
           returned /\ new_version.release_tuple = <<a, b + 1, 0>>
    /\ modifier = "micro" =>
           returned /\ new_version.release_tuple = <<a, b, c + 1>>

C1_Witness ==
    /\ modifier = "minor"
    /\ ~args.remove_parts
    /\ release(current_version) = <<1, 1, 1>>
    /\ current_version.preview # None
    /\ returned
    /\ new_version.release_tuple = <<1, 2, 0>>

\* C2: Major/Minor/Micro increment with remove_parts clear preview, post,
\* dev and local all together; without remove_parts they keep each of the
\* four as in the current version; the epoch is kept in both cases.
C2_RemovePartsAllOrNothing ==
    modifier \in {"major", "minor", "micro"} =>
        /\ returned
        /\ new_version.epoch = current_version.epoch
        /\ args.remove_parts =>
               /\ new_version.preview = None
               /\ new_version.post = None
               /\ new_version.dev = None
               /\ new_version.local = None
        /\ ~args.remove_parts =>
               /\ new_version.preview = current_version.preview
               /\ new_version.post = current_version.post
               /\ new_version.dev = current_version.dev
               /\ new_version.local = current_version.local

C2_Witness ==
    /\ modifier = "major"
    /\ args.remove_parts
    /\ current_version.epoch = 1
    /\ current_version.preview # None
    /\ current_version.post # None
    /\ current_version.dev # None
    /\ current_version.local # None
    /\ returned
    /\ is_final(new_version)

\* C3: AlphaIncrement on a beta or release candidate and BetaIncrement on a
\* release candidate raise PreviewMismatchError and return no Version, for
\* both values of increment_micro; ReleaseCandidateIncrement never raises
\* PreviewMismatchError on a version with no preview, an alpha, a beta or a
\* release candidate.
C3_PreReleaseGuard ==
    /\ (modifier = "alpha"
          /\ (is_beta(current_version) \/ is_release_candidate(current_version)))
           => outcome = Raised("PreviewMismatchError")
    /\ (modifier = "beta" /\ is_release_candidate(current_version))
           => outcome = Raised("PreviewMismatchError")
    /\ (modifier = "rc"
          /\ (\/ current_version.preview = None
              \/ is_alpha(current_version)
              \/ is_beta(current_version)
              \/ is_release_candidate(current_version)))
           => outcome.kind # "PreviewMismatchError"

C3_Witness ==
    /\ modifier = "beta"
    /\ args.increment_micro
    /\ is_release_candidate(current_version)
    /\ outcome.kind = "PreviewMismatchError"
    /\ outcome.version = None

\* The canonical kind of the three pre-release modifiers.
CanonicalKind(name) ==
    IF name = "alpha" THEN "a" ELSE IF name = "beta" THEN "b" ELSE "rc"

SameStage(name, v) ==
    \/ name = "alpha" /\ is_alpha(v)
    \/ name = "beta" /\ is_beta(v)
    \/ name = "rc" /\ is_release_candidate(v)

EarlierStage(name, v) ==
    \/ name = "beta" /\ is_alpha(v)
    \/ name = "rc" /\ (is_alpha(v) \/ is_beta(v))

\* C4: Alpha/Beta/ReleaseCandidate increment with canonical kind k: (1) with
\* no preview the result preview is (k,1) and micro is incremented exactly
\* when increment_micro is set; (2) on a preview of the same stage with
\* number n the result preview is (k,n+1) and the release is unchanged;
\* (3) on a preview of an earlier stage the result preview is (k,1) and the
\* release is unchanged.
C4_PreReleaseProgression ==
    modifier \in {"alpha", "beta", "rc"} =>
        LET k == CanonicalKind(modifier)
        IN  /\ current_version.preview = None =>
                   /\ returned
                   /\ new_version.preview = <<k, 1>>
                   /\ release(new_version) =
                          <<a, b, IF args.increment_micro THEN c + 1 ELSE c>>
            /\ SameStage(modifier, current_version) =>
                   /\ returned
                   /\ new_version.preview = <<k, current_version.preview[2] + 1>>
                   /\ release(new_version) = release(current_version)
            /\ EarlierStage(modifier, current_version) =>
                   /\ returned
                   /\ new_version.preview = <<k, 1>>
                   /\ release(new_version) = release(current_version)

\* C5: DevelopmentIncrement: (i) with dev number d the result has dev d+1
\* and release, preview, post, local and epoch unchanged; (ii) without dev
\* and with preview (k,n) the result has preview (k,n+1), dev (dev,1) and
\* the release unchanged; (iii) without dev and preview the result has micro
\* incremented and dev (dev,1).  In (ii) and (iii) a post part is removed;
\* local and epoch are kept in all cases.
C5_DevelopmentIncrement ==
    modifier = "dev" =>
        /\ returned
        /\ new_version.epoch = current_version.epoch
        /\ new_version.local = current_version.local
        /\ current_version.dev # None =>
               /\ new_version.dev = <<"dev", current_version.dev[2] + 1>>
               /\ release(new_version) = release(current_version)
               /\ new_version.preview = current_version.preview
               /\ new_version.post = current_version.post
        /\ (current_version.dev = None /\ current_version.preview # None) =>
               /\ new_version.preview = <<current_version.preview[1],
                                          current_version.preview[2] + 1>>
               /\ new_version.dev = <<"dev", 1>>
               /\ release(new_version) = release(current_version)
               /\ new_version.post = None
        /\ (current_version.dev = None /\ current_version.preview = None) =>
               /\ release(new_version) = <<a, b, c + 1>>
               /\ new_version.dev = <<"dev", 1>>
               /\ new_version.preview = None
               /\ new_version.post = None

C5_Witness ==
    /\ modifier = "dev"
    /\ current_version.dev = None
    /\ current_version.preview = None
    /\ current_version.post # None
    /\ current_version.local # None
    /\ returned
    /\ new_version.post = None
    /\ new_version.dev = <<"dev", 1>>

\* C6 as stated: DevelopmentIncrement on a version with a preview and no dev
\* part bumps the preview number and leaves dev as it was (absent).
C6_DevUntouchedOnPreview ==
    (modifier = "dev" /\ current_version.preview # None
        /\ current_version.dev = None) =>
        /\ returned
        /\ new_version.preview = <<current_version.preview[1],
                                   current_version.preview[2] + 1>>
        /\ new_version.dev = current_version.dev

\* C6 amended: DevelopmentIncrement on a version with a preview and no dev
\* part bumps the preview number by one and sets dev to (dev,1).
C6_DevStartedOnPreview ==
    (modifier = "dev" /\ current_version.preview # None
        /\ current_version.dev = None) =>
        /\ returned
        /\ new_version.preview[2] = current_version.preview[2] + 1
        /\ new_version.preview[1] = current_version.preview[1]
        /\ is_development_version(new_version)
        /\ new_version.dev[2] = 1

C6_Witness ==
    /\ modifier = "dev"
    /\ current_version.preview = <<"a", 1>>
    /\ current_version.dev = None
    /\ returned
    /\ new_version.preview = <<"a", 2>>
    /\ new_version.dev = <<"dev", 1>>

\* C7: PostIncrement returns post number p+1 when post is set with number p
\* and (post,1) otherwise; the result is never a development version; epoch,
\* release, preview and local are those of the current version.
C7_PostIncrement ==
    modifier = "post" =>
        /\ returned
        /\ new_version.post =
               IF current_version.post # None
               THEN <<"post", current_version.post[2] + 1>>
               ELSE <<"post", 1>>
        /\ ~is_development_version(new_version)
        /\ new_version.epoch = current_version.epoch
        /\ release(new_version) = release(current_version)
        /\ new_version.preview = current_version.preview
        /\ new_version.local = current_version.local

C7_Witness ==
    /\ modifier = "post"
    /\ current_version.post = <<"post", 0>>
    /\ current_version.dev # None
    /\ current_version.preview # None
    /\ returned
    /\ new_version.post = <<"post", 1>>
    /\ new_version.dev = None

\* C8: EpochIncrement always returns epoch + 1; with both flags false every
\* other part is unchanged; with remove_parts and without reset_version the
\* release is unchanged and preview/post/dev/local are absent; with
\* reset_version the release is 1.0.0 and preview/post/dev/local are absent.
C8_EpochIncrement ==
    modifier = "epoch" =>
        /\ returned
        /\ new_version.epoch = current_version.epoch + 1
        /\ (~args.remove_parts /\ ~args.reset_version) =>
               /\ release(new_version) = release(current_version)
               /\ new_version.preview = current_version.preview
               /\ new_version.post = current_version.post
               /\ new_version.dev = current_version.dev
               /\ new_version.local = current_version.local
        /\ (args.remove_parts /\ ~args.reset_version) =>
               /\ release(new_version) = release(current_version)
               /\ is_final(new_version)
        /\ args.reset_version =>
               /\ release(new_version) = <<1, 0, 0>>
               /\ is_final(new_version)

C8_Witness ==
    /\ modifier = "epoch"
    /\ args.remove_parts
    /\ ~args.reset_version
    /\ release(current_version) = <<0, 1, 1>>
    /\ ~is_final(current_version)
    /\ returned
    /\ release(new_version) = <<0, 1, 1>>
    /\ new_version.epoch = current_version.epoch + 1

\* C9: Finalize keeps epoch and release and removes preview, post, dev and
\* local, so its result is final; finalizing the result again gives an equal
\* version, and finalizing a final version gives an equal version.
C9_FinalizeIdempotent ==
    modifier = "no-pre-release" =>
        /\ returned
        /\ new_version.epoch = current_version.epoch
        /\ release(new_version) = release(current_version)
        /\ is_final(new_version)
        /\ Finalizing_create_new_version(new_version).kind = "returned"
        /\ VersionEq(Finalizing_create_new_version(new_version).version,
                     new_version)
        /\ is_final(current_version) => VersionEq(new_version, current_version)

C9_Witness ==
    /\ modifier = "no-pre-release"
    /\ current_version.preview # None
    /\ current_version.post # None
    /\ current_version.dev # None
    /\ current_version.local # None
    /\ Len(current_version.release_tuple) = 2
    /\ returned
    /\ is_final(new_version)

NotFinal(v) ==
    v.preview # None \/ v.post # None \/ v.dev # None \/ v.local # None

\* C10: PreMajor, PreMinor and PrePatch raise ValueError exactly when the
\* current version has any of preview, post, dev or local, returning
\* nothing; on a final version they return (a+1,0,0), (a,b+1,0) and
\* (a,b,c+1) with preview (a,0), the epoch unchanged and no post/dev/local.
C10_PoetryPreIncrements ==
    modifier \in {"premajor", "preminor", "prepatch"} =>
        /\ NotFinal(current_version) => outcome = Raised("ValueError")
        /\ ~NotFinal(current_version) =>
               /\ returned
               /\ new_version.release_tuple =
                      CASE modifier = "premajor" -> <<a + 1, 0, 0>>
                        [] modifier = "preminor" -> <<a, b + 1, 0>>
                        [] modifier = "prepatch" -> <<a, b, c + 1>>
               /\ new_version.preview = <<"a", 0>>
               /\ new_version.epoch = current_version.epoch
               /\ new_version.post = None
               /\ new_version.dev = None
               /\ new_version.local = None

C10_Witness ==
    /\ modifier = "prepatch"
    /\ current_version.local # None
    /\ current_version.preview = None
    /\ current_version.post = None
    /\ current_version.dev = None
    /\ outcome = Raised("ValueError")

\* The canonical short form of a preview kind.
CanonicalOf(kind) ==
    IF kind \in {"a", "alpha"} THEN "a"
    ELSE IF kind \in {"b", "beta"} THEN "b"
    ELSE "rc"

\* C11: Poetry-like PreRelease never raises; without a preview the result
\* has micro incremented by one and preview (a,0); with preview (k,n) the
\* result keeps the release and has preview (k,n+1), k in canonical form.
C11_PoetryPreRelease ==
    modifier = "prerelease" =>
        /\ returned
        /\ current_version.preview = None =>
               /\ release(new_version) = <<a, b, c + 1>>
               /\ new_version.preview = <<"a", 0>>
        /\ current_version.preview # None =>
               /\ release(new_version) = release(current_version)
               /\ new_version.preview =
                      <<CanonicalOf(current_version.preview[1]),
                        current_version.preview[2] + 1>>

C11_Witness ==
    /\ modifier = "prerelease"
    /\ current_version.preview = <<"b", 1>>
    /\ current_version.dev # None
    /\ returned
    /\ new_version.preview = <<"b", 2>>
    /\ new_version.dev = None

\* C12: monotonicity.  Whenever a modifier other than Finalize and
\* EpochIncrement-with-reset returns a version, the comparison
\* new_version >= current_version evaluates to True.
C12_Monotonic ==
    (/\ returned
     /\ modifier # "no-pre-release"
     /\ ~(modifier = "epoch" /\ args.reset_version))
        => Version_ge(new_version, current_version) = "True"

\* The part of C12 that does not depend on the comparison of None: the
\* result is never strictly below a current version in canonical kinds.
C12_NeverBelowCanonical ==
    (/\ returned
     /\ modifier # "no-pre-release"
     /\ ~(modifier = "epoch" /\ args.reset_version)
     /\ (current_version.preview # None
            => current_version.preview[1] \in {"a", "b", "rc"}))
        => Version_ge(new_version, current_version) # "False"

(***************************************************************************)
(* Properties of the comparison of two versions.                           *)
(***************************************************************************)
compared == comparison # NoComparison

SixEqual(v, w) ==
    /\ v.epoch = w.epoch
    /\ <<major(v), minor(v), micro(v)>> = <<major(w), minor(w), micro(w)>>
    /\ v.preview = w.preview
    /\ v.post = w.post
    /\ v.dev = w.dev
    /\ v.local = w.local

ExactlyOne(x, y, z) ==
    \/ x = "True" /\ y # "True" /\ z # "True"
    \/ x # "True" /\ y = "True" /\ z # "True"
    \/ x # "True" /\ y # "True" /\ z = "True"

\* C14: for every pair of versions a == b holds exactly when the six
\* compared parts (release padded to three components) are equal, and
\* exactly one of a < b, a == b, b < a evaluates to True.
C14_TotalOrder ==
    compared =>
        /\ (comparison.eq = "True") <=> SixEqual(current_version, other)
        /\ ExactlyOne(comparison.lt, comparison.eq, comparison.gt)

\* The parts of C14 that the comparison does satisfy: equality is defined
\* for every pair and ignores trailing zeros of the release, and no two of
\* a < b, a == b, b < a are ever True together.
C14_EqualityAndExclusion ==
    compared =>
        /\ (comparison.eq = "True") <=> SixEqual(current_version, other)
        /\ ~(comparison.lt = "True" /\ comparison.gt = "True")
        /\ comparison.eq = "True" =>
               comparison.lt = "False" /\ comparison.gt = "False"

(***************************************************************************)
(* Properties of from_string and format.                                   *)
(***************************************************************************)
\* The tokens that introduce a part, in the order they occur in s.
RECURSIVE Markers(_)
Markers(s) ==
    IF s = <<>> THEN <<>>
    ELSE IF Head(s) = "+" THEN <<"+">>
    ELSE IF Head(s) \in {"!", "post", "dev"} THEN <<Head(s)>> \o Markers(Tail(s))
    ELSE IF Head(s) \in PreviewKinds THEN <<"pre">> \o Markers(Tail(s))
    ELSE Markers(Tail(s))

ExpectedMarkers(v) ==
    (IF v.epoch > 0 THEN <<"!">> ELSE <<>>)
    \o (IF v.preview # None THEN <<"pre">> ELSE <<>>)
    \o (IF v.post # None THEN <<"post">> ELSE <<>>)
    \o (IF v.dev # None THEN <<"dev">> ELSE <<>>)
    \o (IF v.local # None THEN <<"+">> ELSE <<>>)

\* Every text of ValidTexts is accepted and every text of InvalidTexts is
\* rejected by from_string.
TextsAsIntended ==
    parsed # NotCalled => (parsed.kind = "returned" <=> text \in ValidTexts)

\* C13: for every string that from_string accepts, the formatted version
\* parses again to an equal version, formatting that gives the same
\* string, and the formatted string has its parts in the order epoch
\* (only if > 0), release, preview, post, dev, local.
C13_RoundTrip ==
    /\ formatted # None =>
           Markers(formatted) = ExpectedMarkers(parsed.version)
    /\ reparsed # NotCalled =>
           /\ reparsed.kind = "returned"
           /\ VersionEq(reparsed.version, parsed.version)
    /\ reformatted # None => reformatted = formatted

C13_Witness ==
    /\ text = <<"v", "1", "!", "1", ".", "1", ".", "1", ".", "1",
                "-", "alpha", "_", "r", "-", "DEV", "_", "0",
                "+", "LOCAL1", "-", "0", "1">>
    /\ reformatted = <<"1", "!", "1", ".", "1", ".", "1", "a", "0",
                       ".", "post", "0", ".", "dev", "0",
                       "+", "local1", ".", "1">>
    /\ reformatted = formatted
    /\ VersionEq(reparsed.version, parsed.version)

(***************************************************************************)
(* Properties of the version policy.  After get_modifier, statistics and   *)
(* is_clean_repository are its arguments, selected what it did, modifier   *)
(* and args the modifier it returned; after create_new_version, outcome is *)
(* what that modifier did to current_version.                              *)
(***************************************************************************)
got_modifier == selected # "none"

applied == outcome # NotCalled

observed == DOMAIN statistics.commit_type_count

breaking == statistics.contains_breaking_changes

Observes(types) == observed \cap types # {}

\* The rating get_modifier decides on, for non-empty statistics.
FinalRating == get_max_rating(statistics, is_clean_repository)

MinorRated == observed # {} /\ FinalRating = Rating_MINOR

MicroRated == observed # {} /\ FinalRating = Rating_MICRO

\* C15: empty statistics give the no-op modifier, which returns the
\* current version; non-empty statistics on a clean repository and a
\* version that is not a pre-release give MajorIncrement on a breaking
\* change, else MinorIncrement, MicroIncrement, PostIncrement or
\* DevelopmentIncrement by the highest-rated observed commit type,
\* whatever the counts.
C15_RatingBasedSelection ==
    got_modifier =>
        /\ observed = {} =>
               /\ selected = "returned" /\ modifier = "noop"
               /\ applied => outcome = Returned(current_version)
        /\ (/\ observed # {}
            /\ is_clean_repository
            /\ ~is_pre_release(current_version)) =>
               /\ selected = "returned"
               /\ IF breaking
                     THEN modifier = "major" /\ args = DefaultArgs
                  ELSE IF Observes({"Feature", "Performance", "Refactoring"})
                     THEN modifier = "minor" /\ args = DefaultArgs
                  ELSE IF Observes({"Bugfix", "Chore", "Documentation"})
                     THEN modifier = "micro" /\ args = DefaultArgs
                  ELSE IF Observes({"Build", "CodeStyle",
                                    "ContinuousIntegration", "Test"})
                     THEN modifier = "post"
                  ELSE IF Observes({"Undefined"})
                     THEN modifier = "dev"
                  ELSE TRUE

C15_Witness ==
    /\ statistics = [commit_type_count |->
                         [t \in {"Feature", "Bugfix"} |->
                             IF t = "Feature" THEN 1 ELSE MaxCount],
                     contains_breaking_changes |-> FALSE]
    /\ is_clean_repository
    /\ current_version = Version(0, <<1, 2, 3>>, None, None, None, None)
    /\ modifier = "minor"
    /\ outcome = Returned(Version(0, <<1, 3, 0>>, None, None, None, None))

\* C16: for non-empty statistics, a dirty repository counts as rating
\* LOCAL: when the statistics alone rate at least DEVELOPMENT the result
\* of get_modifier is the same for a clean and a dirty repository; when
\* nothing observed rates above LOCAL, there is no breaking change and the
\* repository is dirty, get_modifier raises NotImplementedError; when the
\* final rating is below LOCAL it returns the no-op modifier.
C16_DirtyRepository ==
    (got_modifier /\ observed # {}) =>
        /\ get_max_rating(statistics, TRUE) >= Rating_DEVELOPMENT =>
               /\ get_modifier(current_version, statistics, TRUE)
                     = [kind |-> selected, name |-> modifier, args |-> args]
               /\ get_modifier(current_version, statistics, FALSE)
                     = [kind |-> selected, name |-> modifier, args |-> args]
        /\ (/\ \A t \in observed : rate_commit_type(t) <= Rating_LOCAL
            /\ ~breaking
            /\ ~is_clean_repository) =>
               selected = "NotImplementedError"
        /\ (/\ \A t \in observed : rate_commit_type(t) < Rating_LOCAL
            /\ ~breaking
            /\ is_clean_repository) =>
               selected = "returned" /\ modifier = "noop"

C16_Witness ==
    /\ observed = {"QualityAssurance"}
    /\ ~breaking
    /\ ~is_clean_repository
    /\ selected = "NotImplementedError"

\* The current version has a preview and is not a development version.
PreviewOnly ==
    current_version.preview # None /\ ~is_development_version(current_version)

stored_kind == current_version.preview[1]

stored_number == current_version.preview[2]

MinorIncrementResult ==
    ReleaseVersionModifier_create_new_version(current_version, MINOR_PART,
                                              TRUE)

MicroIncrementResult ==
    ReleaseVersionModifier_create_new_version(current_version, MICRO_PART,
                                              TRUE)

\* C17 as stated: on a MINOR rating a version with preview (k, n) that is
\* not a development version keeps its release, gets the kind shifted
\* (alpha to beta, beta and rc kept) and the number n + 1; a version that
\* is not a pre-release gets the ordinary MinorIncrement.
C17_MinorShiftsAndIncrements ==
    (MinorRated /\ applied) =>
        /\ PreviewOnly =>
               /\ returned
               /\ release(new_version) = release(current_version)
               /\ new_version.preview =
                      <<IF is_alpha(current_version) \/ is_beta(current_version)
                        THEN "b" ELSE "rc", stored_number + 1>>
        /\ ~is_pre_release(current_version) =>
               outcome = MinorIncrementResult

\* C17, amended: the shifted stage's pre-release increment is applied.  An
\* alpha version becomes (b, 1), the number restarting with the new stage;
\* a version of stored kind b or rc keeps the kind and gets n + 1; the
\* release is kept; a version that is not a pre-release gets the ordinary
\* MinorIncrement.
C17_MinorShiftsStage ==
    (MinorRated /\ applied) =>
        /\ PreviewOnly =>
               /\ modifier = "pre-release"
               /\ returned
               /\ release(new_version) = release(current_version)
               /\ new_version.preview[1] =
                      (IF is_alpha(current_version) \/ is_beta(current_version)
                       THEN "b" ELSE "rc")
               /\ is_alpha(current_version) => new_version.preview = <<"b", 1>>
               /\ stored_kind \in {"b", "rc"} =>
                      new_version.preview = <<stored_kind, stored_number + 1>>
        /\ ~is_pre_release(current_version) =>
               modifier = "minor" /\ outcome = MinorIncrementResult

C17_Witness ==
    /\ MinorRated
    /\ current_version =
           Version(0, <<1, 2, 3>>, <<"a", MaxPre>>, None, None, None)
    /\ outcome =
           Returned(Version(0, <<1, 2, 3>>, <<"b", 1>>, None, None, None))

\* C18: on a MICRO rating a version with preview (k, n) that is not a
\* development version gets preview (k, n + 1) and keeps its release; a
\* version that is not a pre-release gets the ordinary MicroIncrement.
C18_MicroIncrementsPreview ==
    (MicroRated /\ applied) =>
        /\ PreviewOnly =>
               /\ returned
               /\ release(new_version) = release(current_version)
               /\ new_version.preview = <<stored_kind, stored_number + 1>>
        /\ ~is_pre_release(current_version) =>
               outcome = MicroIncrementResult

\* The part of C18 that holds: the stored kinds a, b and rc.
C18_MicroIncrementsCanonicalPreview ==
    (MicroRated /\ applied) =>
        /\ (PreviewOnly /\ stored_kind \in {"a", "b", "rc"}) =>
               /\ returned
               /\ release(new_version) = release(current_version)
               /\ new_version.preview = <<stored_kind, stored_number + 1>>
        /\ ~is_pre_release(current_version) =>
               outcome = MicroIncrementResult

\* C19 as stated: on a MINOR or MICRO rating a development version keeps
\* its release tuple and loses preview, post and dev.
C19_GraduateDropsPreview ==
    ((MinorRated \/ MicroRated) /\ applied
         /\ is_development_version(current_version)) =>
        /\ returned
        /\ new_version.release_tuple = current_version.release_tuple
        /\ new_version.preview = None
        /\ new_version.post = None
        /\ new_version.dev = None

\* C19, amended: on a MINOR or MICRO rating a development version keeps
\* its epoch, release tuple and preview and loses post, dev and local.
C19_GraduateKeepsPreview ==
    ((MinorRated \/ MicroRated) /\ applied
         /\ is_development_version(current_version)) =>
        /\ modifier = "reset-locals"
        /\ returned
        /\ new_version.epoch = current_version.epoch
        /\ new_version.release_tuple = current_version.release_tuple
        /\ new_version.preview = current_version.preview
        /\ new_version.post = None
        /\ new_version.dev = None
        /\ new_version.local = None

C19_Witness ==
    /\ MicroRated
    /\ current_version =
           Version(0, <<1, 2, 3>>, <<"a", MaxPre>>, <<"post", MaxPost>>,
                   <<"dev", MaxDev>>, <<"local1">>)
    /\ outcome =
           Returned(Version(0, <<1, 2, 3>>, <<"a", MaxPre>>, None, None, None))

(***************************************************************************)
(* Properties of the commit parser.                                        *)
(***************************************************************************)
parsed_commit == commit_type # "none"

captured == get_conventional_commit_prefix(header)

\* The captured prefix without a trailing "!".
stripped ==
    IF captured # None /\ captured[Len(captured)] = "!"
    THEN SubSeq(captured, 1, Len(captured) - 1)
    ELSE captured

Configured(type, prefix) ==
    \E i \in 1..Len(prefix_mappings) : prefix_mappings[i] = <<type, prefix>>

\* C20 as stated: the commit type is the one whose configured prefix
\* equals the captured prefix with a trailing "!" stripped, and Undefined
\* when the header does not match or no configured prefix equals it.
C20_PrefixEquals ==
    parsed_commit =>
        IF captured # None /\ stripped \in ConfiguredWords
        THEN Configured(commit_type, stripped)
        ELSE commit_type = "Undefined"

\* C20, amended: the commit type is the one whose configured prefix the
\* captured prefix starts with, and Undefined when the header does not
\* match or the captured prefix starts with no configured prefix.
C20_PrefixStartsWith ==
    parsed_commit =>
        IF captured # None
           /\ \E word \in ConfiguredWords : StartsWith(captured, word)
        THEN \E word \in ConfiguredWords :
                StartsWith(captured, word) /\ Configured(commit_type, word)
        ELSE commit_type = "Undefined"

C20_Witness ==
    /\ header = <<"f", "e", "a", "t", "u", "r", "e", ":", " ", "x">>
    /\ commit_type = "Feature"


(***************************************************************************)
(* C21: is_breaking_change is true exactly when the header starts with a   *)
(* non-empty run of characters other than ":" and "!", followed by "!",    *)
(* ":" and a whitespace character, that is, when the header matches the    *)
(* conventional pattern and the captured prefix ends with "!".  A header   *)
(* that does not match is never a breaking change.                         *)
(***************************************************************************)
rated_breaking == breaking_change # "none"

ColonFree(str) == \A i \in 1..Len(str) : str[i] \notin {":", "!"}

BangTyped(hdr) ==
    \E n \in 1..Len(hdr) :
        /\ ColonFree(SubSeq(hdr, 1, n))
        /\ Len(hdr) >= n + 3
        /\ hdr[n + 1] = "!"
        /\ hdr[n + 2] = ":"
        /\ hdr[n + 3] \in {" ", "\n"}

C21_BreakingChange ==
    rated_breaking =>
        /\ breaking_change = "True" <=> BangTyped(header)
        /\ captured = None => breaking_change = "False"

C21_Witness ==
    /\ header = <<"f", "e", "a", "t", "(", "x", ")", "!", ":", " ", "x">>
    /\ breaking_change = "True"


(***************************************************************************)
(* C22: the statistics read from a history have exactly the commit types   *)
(* that occur as keys, each with the number of commits of that type (the   *)
(* counts sum to the number of commits, none is 0), the breaking flag is   *)
(* set exactly when some commit is a breaking change, every ordering of    *)
(* the same commits gives the same statistics, and every read returns the  *)
(* value the first read computed.                                          *)
(***************************************************************************)
read_stats == commit_stats[1]

OfType(type) == {i \in DOMAIN commits : parse_commit_type(commits[i]) = type}

RECURSIVE SumOver(_, _)
SumOver(counts, types) ==
    IF types = {} THEN 0
    ELSE LET t == CHOOSE x \in types : TRUE
         IN  counts[t] + SumOver(counts, types \ {t})

Orderings(cs) ==
    {[i \in DOMAIN cs |-> cs[order[i]]] :
        order \in {f \in [DOMAIN cs -> DOMAIN cs] :
                      \A i, j \in DOMAIN cs : f[i] = f[j] => i = j}}

C22_CommitStats ==
    commit_stats # None =>
        LET counts == read_stats.commit_type_count
        IN  /\ DOMAIN counts = {t \in CommitTypes : OfType(t) # {}}
            /\ \A t \in DOMAIN counts :
                   counts[t] = Cardinality(OfType(t)) /\ counts[t] > 0
            /\ SumOver(counts, DOMAIN counts) = Len(commits)
            /\ read_stats.contains_breaking_changes
                   <=> \E i \in DOMAIN commits : is_breaking_change(commits[i])
            /\ \A cs \in Orderings(commits) :
                   get_commit_stats(cs) = read_stats
            /\ commit_stats = get_commit_stats_cache

C22_ComputedOnce ==
    [][get_commit_stats_cache # None
          => get_commit_stats_cache' = get_commit_stats_cache]_vars

C22_Witness ==
    /\ accesses = MaxAccesses
    /\ Len(commits) = 3
    /\ read_stats.commit_type_count = [t \in {"Feature", "Undefined"} |->
                                           IF t = "Feature" THEN 2 ELSE 1]
    /\ read_stats.contains_breaking_changes
    /\ ~is_breaking_change(commits[3])


(***************************************************************************)
(* C23: no partial application.  When create_new_version raises, run       *)
(* raises the same error, save_version is never called and the modifier's  *)
(* current_version stays what it was; on a dry run save_version is never   *)
(* called, current_version stays what it was and after_run creates no tag. *)
(***************************************************************************)
ran == pc[1] \in {"after_run", "done", "raised"}

C23_NoPartialApplication ==
    ran =>
        /\ outcome.kind # "returned" =>
               /\ pc[1] = "raised"
               /\ raised = outcome.kind
               /\ save_version_calls = <<>>
               /\ current_version = old_version
        /\ dry_run =>
               /\ save_version_calls = <<>>
               /\ current_version = old_version
               /\ created_tags = <<>>

C23_Witness ==
    /\ pc[1] = "raised"
    /\ raised = "PreviewMismatchError"
    /\ old_version.preview = <<"b", 1>>

C23_WitnessDryRun ==
    /\ pc[1] = "done"
    /\ dry_run
    /\ options["tag"]
    /\ outcome.kind = "returned"
    /\ ~VersionEq(outcome.version, old_version)


(***************************************************************************)
(* C24: a Version that exists has, when its preview is present, one of     *)
(* the canonical kinds a, b and rc, and the constructor raises ValueError  *)
(* for any other preview kind, whatever post, dev and local are.           *)
(***************************************************************************)
constructed == modifier = "Version"

CanonicalKinds == {"a", "b", "rc"}

C24_CanonicalPreviewKind ==
    constructed =>
        IF current_version.preview # None
           /\ current_version.preview[1] \notin CanonicalKinds
        THEN outcome = Raised("ValueError")
        ELSE outcome = Returned(current_version)

\* What the constructor does: it rejects a kind outside the six it lists,
\* and only when no dev part is given.
C24_ListedKindUnlessDev ==
    constructed =>
        IF /\ current_version.preview # None
           /\ current_version.dev = None
           /\ current_version.preview[1] \notin PreviewKinds
        THEN outcome = Raised("ValueError")
        ELSE outcome = Returned(current_version)


(***************************************************************************)
(* C25: a dry run through the hooks writes nothing to the VCS: whatever    *)
(* the order of registration of CommitChanges and TagChanges, the commit,  *)
(* tag and dirty flags and the cleanliness of the repository, neither      *)
(* check_in_deltas nor create_tag_from_version is called.                  *)
(***************************************************************************)
C25_DryRunWritesNothing ==
    dry_run => check_in_deltas_calls = 0 /\ created_tags = <<>>


(***************************************************************************)
(* C26: tagging a dirty repository.  With the tag requested, no dry run,   *)
(* TagChanges registered and an action that changes the version: when the  *)
(* dirty flag is set the tag is created although the repository is dirty   *)
(* and no RuntimeError is raised before or after the action; without the   *)
(* dirty flag the run fails with RuntimeError before the executor has run  *)
(* and no tag is created.                                                  *)
(***************************************************************************)
finished == pc[1] = "raised" \/ (pc[1] = "post" /\ pc[2] > Len(hooks))

ChangesVersion ==
    LET next_version ==
            command_create_new_version(modifier, args, current_version)
    IN  /\ next_version.kind = "returned"
        /\ ~VersionEq(next_version.version, current_version)

TaggingDirty ==
    /\ command_line["tag"]
    /\ ~command_line["dry_run"]
    /\ \E i \in DOMAIN hooks : hooks[i] = "TagChanges"
    /\ ChangesVersion
    /\ ~vcs_is_clean

C26_TagDirtyRepository ==
    TaggingDirty /\ finished =>
        IF command_line["dirty"]
        THEN raised = "none" /\ created_tags # <<>>
        ELSE /\ raised = "RuntimeError"
             /\ returned_version = None
             /\ created_tags = <<>>

\* What the hooks do: the pre-action hook of TagChanges refuses a dirty
\* repository whether or not the dirty flag is set.
C26_DirtyRepositoryRefused ==
    TaggingDirty /\ finished =>
        /\ raised = "RuntimeError"
        /\ returned_version = None
        /\ created_tags = <<>>


(***************************************************************************)
(* C27: the pre-release command called with --no-micro never increments    *)
(* the micro component, also when the current version is not yet a         *)
(* pre-release (1.0.0 with --pre alpha gives 1.0.0a1); called with --micro *)
(* it increments the micro component exactly when the current version has  *)
(* no preview.                                                             *)
(***************************************************************************)
PreReleaseCommand == modifier = "pre-release" /\ returned

MicroIncremented == micro(new_version) = micro(current_version) + 1

MicroKept == micro(new_version) = micro(current_version)

C27_NoMicroNeverIncrements ==
    PreReleaseCommand =>
        /\ args.no_increment_micro /\ ~args.increment_micro => MicroKept
        /\ args.increment_micro =>
               IF current_version.preview = None THEN MicroIncremented
               ELSE MicroKept

\* What the command does: --no-micro is honoured only when the current
\* version is a pre-release or a development version.
C27_NoMicroOnPreRelease ==
    PreReleaseCommand =>
        /\ args.no_increment_micro /\ ~args.increment_micro =>
               IF current_version.preview = None
                  /\ current_version.dev = None
               THEN MicroIncremented
               ELSE MicroKept
        /\ args.increment_micro =>
               IF current_version.preview = None THEN MicroIncremented
               ELSE MicroKept


(***************************************************************************)
(* C28: an unchanged version is never persisted.  Whenever the version a   *)
(* modifier computes equals the current version (Finalize on a final       *)
(* version, the no-op modifier), run does not call save_version.           *)
(***************************************************************************)
ComputedUnchanged ==
    /\ ran
    /\ outcome.kind = "returned"
    /\ VersionEq(outcome.version, old_version)

C28_UnchangedNeverPersisted ==
    ComputedUnchanged => save_version_calls = <<>>

\* What run does: it skips save_version only for a modifier that returns
\* the current version object itself; an equal version built anew is saved.
C28_SameObjectNeverPersisted ==
    ComputedUnchanged =>
        IF returns_current_version_object(modifier) \/ dry_run
        THEN save_version_calls = <<>>
        ELSE /\ Len(save_version_calls) = 1
             /\ VersionEq(save_version_calls[1], old_version)

\* The hooks' half of the statement: when the executor returns a version
\* equal to the one before, the commit and tag hooks take no action.
C28_UnchangedHooksIdle ==
    (pc[1] = "post" /\ VersionEq(old_version, returned_version)) =>
        created_tags = <<>> /\ check_in_deltas_calls = 0


(***************************************************************************)
(* C29: every pre-release increment that succeeds (AlphaIncrement,         *)
(* BetaIncrement, ReleaseCandidateIncrement, the pre-release command and   *)
(* the Poetry-like prerelease) returns a version without post, dev and     *)
(* local and with the epoch of the current version, whatever post, dev and *)
(* local the current version carried; of the remaining parts only the      *)
(* preview and the micro component can differ from the current version.    *)
(***************************************************************************)
PreReleaseIncrements ==
    {"alpha", "beta", "rc", "pre-release", "prerelease"}

C29_PreReleaseFrame ==
    (modifier \in PreReleaseIncrements /\ returned) =>
        /\ new_version.post = None
        /\ new_version.dev = None
        /\ new_version.local = None
        /\ new_version.epoch = current_version.epoch
        /\ major(new_version) = major(current_version)
        /\ minor(new_version) = minor(current_version)
        /\ micro(new_version) \in {micro(current_version),
                                   micro(current_version) + 1}

C29_Witness ==
    /\ modifier = "pre-release"
    /\ returned
    /\ current_version.epoch = MaxEpoch
    /\ current_version.post # None
    /\ current_version.dev # None
    /\ current_version.local # None
    /\ current_version.preview # None
    /\ new_version.preview # current_version.preview

C29_WitnessPoetry ==
    /\ modifier = "prerelease"
    /\ returned
    /\ current_version.post # None
    /\ current_version.dev # None
    /\ current_version.local # None
    /\ micro(new_version) = micro(current_version) + 1


(***************************************************************************)
(* C30: for every current version that from_string can produce (a preview *)
(* of kind a, b or rc, or none) and every non-empty CommitStatistics with  *)
(* a clean repository, get_modifier returns a modifier that is not         *)
(* EpochIncrement and whose create_new_version returns a Version: it       *)
(* raises neither PreviewMismatchError nor ValueError.                     *)
(***************************************************************************)
FromStringVersion ==
    current_version.preview # None =>
        current_version.preview[1] \in CanonicalKinds

PolicyConsulted ==
    /\ selected # "none"
    /\ FromStringVersion
    /\ observed # {}
    /\ is_clean_repository

C30_SelectedModifierApplies ==
    PolicyConsulted =>
        /\ selected = "returned"
        /\ modifier # "epoch"
        /\ create_new_version(modifier, args, current_version).kind
               = "returned"
        /\ applied => outcome.kind = "returned"

C30_Witness ==
    /\ PolicyConsulted
    /\ applied
    /\ FinalRating = Rating_MINOR
    /\ current_version.preview = <<"a", MaxPre>>
    /\ current_version.dev = None
    /\ modifier = "pre-release"
    /\ args.pre_release_part = "beta"
    /\ new_version.preview = <<"b", 1>>

C30_WitnessMicro ==
    /\ PolicyConsulted
    /\ applied
    /\ FinalRating = Rating_MICRO
    /\ current_version.preview = <<"rc", MaxPre>>
    /\ current_version.post # None
    /\ modifier = "pre-release"
    /\ new_version.preview = <<"rc", MaxPre + 1>>

====
